---- MODULE Spec2Model ----
(***************************************************************************)
(* Model of the heatmap decode core of mmpose:                             *)
(*   mmpose/core/evaluation/top_down_eval.py   (maximum finder, sub-pixel  *)
(*       refiners, blur modulator, PCK / AUC / EPE metrics)                *)
(*   mmpose/core/keypoint/codecs/megvii_heatmap.py  (Megvii codec)         *)
(* and of the threads of demo/webcam_demo_async.py.                        *)
(*                                                                         *)
(* Numbers.  The code computes in IEEE floats; the model computes in fixed *)
(* point.  A heatmap value v is the integer v * HeatScale, a coordinate c  *)
(* the integer c * CoordScale, a logarithm l the integer l * LogScale.     *)
(* NaN is a value of its own that every operation propagates.  Metric      *)
(* values (accuracies, thresholds, squared distances) are exact rationals. *)
(* Arrays are functions with 0-based index sets, indexed as in the code:   *)
(* heatmaps[n][k][y][x], preds[n][k] = <<x, y>>, maxvals[n][k].            *)
(***************************************************************************)
EXTENDS Integers, Sequences, FiniteSets, TLC

VARIABLES
    pc,        \* position of the caller: which call has been made
    heatmaps,  \* the caller's heatmap array (the object passed to the calls)
    args,      \* the other arguments of the call (a record)
    ret,       \* the value returned by the last call
    prev,      \* the value returned by the call before the last one
    alt,       \* a second caller array: the same batch with one instance replaced
    altRet,    \* the value returned by the call on alt
    shared     \* the objects the threads of webcam_demo_async.py share

vars == <<pc, heatmaps, args, ret, prev, alt, altRet, shared>>

None == "none"

(***************************************************************************)
(* Fixed point                                                             *)
(***************************************************************************)
CoordScale == 100
HeatScale == 4096
NaN == -(2^30)

IsNaN(v) == v = NaN

\* IEEE comparisons: every comparison with NaN is false.
FGt(a, b) == ~IsNaN(a) /\ ~IsNaN(b) /\ a > b
FLe(a, b) == ~IsNaN(a) /\ ~IsNaN(b) /\ a <= b

\* int(c) and astype(np.int32) of a coordinate: truncation toward zero.
TruncInt(c) == IF c >= 0 THEN c \div CoordScale ELSE -((-c) \div CoordScale)

Dim(f) == Cardinality(DOMAIN f)
Idx(n) == 0 .. (n - 1)

\* An array holds its elements: the value is a, with every element computed
\* once (the comparison makes TLC tabulate the function).
ndarray(a) == IF a = a THEN a ELSE a

(***************************************************************************)
(* _get_max_preds                                                          *)
(***************************************************************************)
\* heatmaps.reshape((N, K, -1)): the row-major flattening of one channel.
reshape_column_major(hm) ==
    LET H == Dim(hm)
    IN  ndarray([i \in Idx(H * Dim(hm[0])) |-> hm[i % H][i \div H]])
reshape(hm) ==
    LET W == Dim(hm[0])
    IN  ndarray([i \in Idx(Dim(hm) * W) |-> hm[i \div W][i % W]])

\* np.argmax along the flattened axis: a scan that keeps the first maximum;
\* a NaN, once met, is the maximum and ends the scan.
RECURSIVE argmax_scan(_, _, _)
argmax_scan(flat, i, best) ==
    IF i = Dim(flat) \/ IsNaN(flat[best]) THEN best
    ELSE argmax_scan(flat, i + 1, IF ~FLe(flat[i], flat[best]) THEN i ELSE best)

argmax(flat) == argmax_scan(flat, 1, 0)

\* np.amax along the flattened axis: NaN if any element is NaN.
RECURSIVE amax_scan(_, _, _)
amax_scan(flat, i, m) ==
    IF i = Dim(flat) \/ IsNaN(m) THEN m
    ELSE amax_scan(flat, i + 1,
                   IF IsNaN(flat[i]) THEN NaN
                   ELSE IF flat[i] > m THEN flat[i] ELSE m)

amax(flat) == amax_scan(flat, 1, flat[0])

\* preds of one channel before the validity test: (idx % W, idx // W) as floats.
idx_to_xy_swapped(idx, W) == <<(idx \div W) * CoordScale, (idx % W) * CoordScale>>
idx_to_xy(idx, W) == <<(idx % W) * CoordScale, (idx \div W) * CoordScale>>

\* the validity test of np.where: maxvals > 0.0
valid_max_ge(m) == ~IsNaN(m) /\ m >= 0
valid_max(m) == FGt(m, 0)

Sentinel == <<-CoordScale, -CoordScale>>

_get_max_preds(hms) ==
    LET W == Dim(hms[0][0][0])
        flat(n, k) == reshape(hms[n][k])
        maxvals == ndarray([n \in DOMAIN hms |-> [k \in DOMAIN hms[n] |-> amax(flat(n, k))]])
        preds == ndarray([n \in DOMAIN hms |-> [k \in DOMAIN hms[n] |->
                    IF valid_max(maxvals[n][k])
                    THEN idx_to_xy(argmax(flat(n, k)), W)
                    ELSE Sentinel]])
    IN  [preds |-> preds, maxvals |-> maxvals]

(***************************************************************************)
(* Specification SpecMax: a caller hands a heatmap batch to _get_max_preds *)
(***************************************************************************)
MaxN == 2
MaxK == 2
MaxH == 2
MaxW == 3
MaxVal == 2

Vals == -1 .. MaxVal

\* A channel with background bg and two written cells.
Channel(H, W, bg, c1, v1, c2, v2) ==
    [y \in Idx(H) |-> [x \in Idx(W) |->
        IF y * W + x = c2 THEN v2 ELSE IF y * W + x = c1 THEN v1 ELSE bg]]

\* The other channels of the batch: all zero, a ramp, or all negative.
OtherChannel(H, W, o) ==
    [y \in Idx(H) |-> [x \in Idx(W) |->
        CASE o = 0 -> 0
          [] o = 1 -> y * W + x + 1
          [] OTHER -> -1]]

InitMax ==
    /\ pc = "max_ready"
    /\ \E N \in 1 .. MaxN, K \in 1 .. MaxK, H \in 1 .. MaxH, W \in 1 .. MaxW :
       \E bg \in {-1, 0}, c1, c2 \in Idx(H * W), v1, v2 \in Vals :
          /\ c1 <= c2
          /\ heatmaps = [n \in Idx(N) |-> [k \in Idx(K) |->
                         IF n = N - 1 /\ k = K - 1
                         THEN Channel(H, W, bg, c1, v1, c2, v2)
                         ELSE OtherChannel(H, W, (n + 2 * k) % 3)]]
    /\ args = None /\ ret = None /\ prev = None /\ alt = None /\ altRet = None
    /\ shared = None

GetMaxPreds ==
    /\ pc = "max_ready"
    /\ ret' = _get_max_preds(heatmaps)
    /\ pc' = "max_done"
    /\ UNCHANGED <<heatmaps, args, prev, alt, altRet, shared>>

NextMax == GetMaxPreds

SpecMax == InitMax /\ [][NextMax]_vars

(***************************************************************************)
(* cv2.GaussianBlur(src, (kx, ky), 0)                                      *)
(*                                                                         *)
(* With sigma 0 and an odd kernel size up to 7 OpenCV uses fixed kernels,  *)
(* exact in 1/64; the border is BORDER_REFLECT_101; the filter is          *)
(* separable, rows first.  A NaN under the kernel makes the result NaN.    *)
(***************************************************************************)
KernelUnit == 64

GaussTab(k) ==
    CASE k = 1 -> <<64>>
      [] k = 3 -> <<16, 32, 16>>
      [] k = 5 -> <<4, 16, 24, 16, 4>>
      [] k = 7 -> <<2, 7, 14, 18, 14, 7, 2>>

RECURSIVE Reflect101(_, _)
Reflect101(p, len) ==
    IF len = 1 THEN 0
    ELSE IF p < 0 THEN Reflect101(-p, len)
    ELSE IF p >= len THEN Reflect101(2 * len - 2 - p, len)
    ELSE p

\* the weighted sum of the taps line[Reflect101(x + i - r)], i = 1 .. k
RECURSIVE tap_sum(_, _, _, _, _)
tap_sum(line, len, x, k, i) ==
    IF i > k THEN 0
    ELSE LET v == line[Reflect101(x + i - 1 - (k - 1) \div 2, len)]
             rest == tap_sum(line, len, x, k, i + 1)
         IN  IF IsNaN(v) \/ IsNaN(rest) THEN NaN ELSE GaussTab(k)[i] * v + rest

filter_line(line, k) ==
    LET len == Dim(line)
    IN  ndarray([x \in Idx(len) |->
            LET t == tap_sum(line, len, x, k, 1)
            IN  IF IsNaN(t) THEN NaN ELSE t \div KernelUnit])

GaussianBlur(hm, kx, ky) ==
    LET H == Dim(hm)
        W == Dim(hm[0])
        rows == ndarray([y \in Idx(H) |-> filter_line(hm[y], kx)])
        cols == ndarray([x \in Idx(W) |-> filter_line([y \in Idx(H) |-> rows[y][x]], ky)])
    IN  ndarray([y \in Idx(H) |-> [x \in Idx(W) |-> cols[x][y]]])

\* np.max of one channel
channel_max(hm) == amax(reshape(hm))

(***************************************************************************)
(* _gaussian_blur: the blur modulator.  It writes into the array it is     *)
(* given: the value is the caller's array after the call.                  *)
(***************************************************************************)
\* heatmaps[i, j] *= origin_max / np.max(heatmaps[i, j]), one element;
\* 0 / 0 is NaN and NaN times anything is NaN.
rescale(v, origin_max, new_max) ==
    IF IsNaN(v) \/ IsNaN(origin_max) \/ IsNaN(new_max) \/ new_max = 0 THEN NaN
    ELSE (v * origin_max) \div new_max

blur_channel(hm, kernel) ==
    LET border == (kernel - 1) \div 2
        height == Dim(hm)
        width == Dim(hm[0])
        origin_max == channel_max(hm)
        dr0 == ndarray([y \in Idx(height + 2 * border) |-> [x \in Idx(width + 2 * border) |->
                  IF /\ border <= y /\ y < height + border
                     /\ border <= x /\ x < width + border
                  THEN hm[y - border][x - border] ELSE 0]])
        dr == GaussianBlur(dr0, kernel, kernel)
        cut == ndarray([y \in Idx(height) |-> [x \in Idx(width) |-> dr[y + border][x + border]]])
        new_max == channel_max(cut)
    IN  ndarray([y \in Idx(height) |-> [x \in Idx(width) |->
            rescale(cut[y][x], origin_max, new_max)]])

_gaussian_blur(hms, kernel) ==
    ndarray([i \in DOMAIN hms |-> [j \in DOMAIN hms[i] |-> blur_channel(hms[i][j], kernel)]])

(***************************************************************************)
(* np.log.  A logarithm is held in units of ln(2) / LogScale and is a      *)
(* multiple of 4 units, so that the factors 0.5 and 0.25 of the finite     *)
(* differences are exact.  The Newton steps are ratios of logarithms, so   *)
(* the unit cancels.                                                       *)
(***************************************************************************)
LogScale == 256
MantBits == 14
FracBits == 6

RECURSIVE floor_log2(_)
floor_log2(v) == IF v < 2 THEN 0 ELSE 1 + floor_log2(v \div 2)

\* the first n binary digits of log2(m / 2^MantBits), 2^MantBits <= m < 2^(MantBits+1):
\* square, and shift out a 1 whenever the square reaches 2.
RECURSIVE frac_log2(_, _)
frac_log2(m, n) ==
    IF n = 0 THEN 0
    ELSE LET sq == (m * m) \div (2 ^ MantBits)
         IN  IF sq >= 2 ^ (MantBits + 1)
             THEN 2 ^ (n - 1) + frac_log2(sq \div 2, n - 1)
             ELSE frac_log2(sq, n - 1)

\* log of the heat value v / HeatScale, v >= 1
log_pos(v) ==
    LET e == floor_log2(v)
        m == IF e > MantBits THEN v \div (2 ^ (e - MantBits)) ELSE v * 2 ^ (MantBits - e)
        l2 == e * (2 ^ FracBits) + frac_log2(m, FracBits)
    IN  (l2 - floor_log2(HeatScale) * (2 ^ FracBits)) * (LogScale \div (2 ^ FracBits))

\* np.log(1e-10) = -33.219 bits, np.log(0.001) = -9.966 bits, np.log(50) = 5.644 bits
LogFloor == -8504
LogClipLo == -2552
LogClipHi == 1444
\* 0.001 and 50 as heat values
ClipLo == 4
ClipHi == 50 * HeatScale

\* np.log(np.maximum(v, 1e-10))
log_floor(v) == IF IsNaN(v) THEN NaN ELSE IF v < 1 THEN LogFloor ELSE log_pos(v)

\* np.log(np.clip(v, 0.001, 50))
log_clip(v) ==
    IF IsNaN(v) THEN NaN
    ELSE IF v <= ClipLo THEN LogClipLo
    ELSE IF v >= ClipHi THEN LogClipHi
    ELSE log_pos(v)

(***************************************************************************)
(* Sub-pixel refinement                                                    *)
(***************************************************************************)
sign_no_zero(a) == IF a >= 0 THEN 1 ELSE -1
Sign(a) == IF a > 0 THEN 1 ELSE IF a < 0 THEN -1 ELSE 0
Abs(a) == IF a < 0 THEN -a ELSE a

\* a / c rounded to the nearest integer, c # 0
DivRound(a, c) == Sign(a) * Sign(c) * ((2 * Abs(a) + Abs(c)) \div (2 * Abs(c)))

\* An offset beyond OffsetCap pixels is held as OffsetCap pixels.
OffsetCap == 10000 * CoordScale
Cap(v) == IF v > OffsetCap THEN OffsetCap ELSE IF v < -OffsetCap THEN -OffsetCap ELSE v

\* the quotient a / c of two differences of logarithms as a coordinate
Quot(a, c) ==
    IF Abs(a) < 2 ^ 23 THEN Cap(DivRound(a * CoordScale, c))
    ELSE IF Abs(c) < 64 THEN Sign(a) * Sign(c) * OffsetCap
    ELSE Cap(DivRound((Abs(a) \div 64) * Sign(a) * CoordScale, (Abs(c) \div 64) * Sign(c)))

AnyNaN(S) == \E v \in S : IsNaN(v)
NaNCoord == <<NaN, NaN>>

\* a Python index: a negative index counts from the end
PyIdx(i, len) == IF i < 0 THEN i + len ELSE i

\* heatmap[y][x]
at_py(heatmap, y, x) == heatmap[PyIdx(y, Dim(heatmap))][PyIdx(x, Dim(heatmap[0]))]

\* _taylor on the blurred, floored, log-transformed channel
taylor_guard_low(px, py, W, H) == 0 < px /\ px < W - 2 /\ 0 < py /\ py < H - 2
taylor_guard(px, py, W, H) == 1 < px /\ px < W - 2 /\ 1 < py /\ py < H - 2

\* the elements <<row, column>> of heatmap that lines 233-242 read
taylor_reads(px, py) ==
    {<<py, px + 1>>, <<py, px - 1>>, <<py + 1, px>>, <<py - 1, px>>, <<py, px + 2>>,
     <<py, px>>, <<py, px - 2>>, <<py + 1, px + 1>>, <<py - 1, px + 1>>,
     <<py + 1, px - 1>>, <<py - 1, px - 1>>, <<py + 2, px>>, <<py - 2, px>>}

taylor_skipped(heatmap, coord) == coord

_taylor(heatmap, coord) ==
    LET H == Dim(heatmap)
        W == Dim(heatmap[0])
        px == TruncInt(coord[1])
        py == TruncInt(coord[2])
    IN  IF ~taylor_guard(px, py, W, H) THEN coord
        ELSE
        LET reads == {at_py(heatmap, c[1], c[2]) : c \in taylor_reads(px, py)}
            dx == (at_py(heatmap, py, px + 1) - at_py(heatmap, py, px - 1)) \div 2
            dy == (at_py(heatmap, py + 1, px) - at_py(heatmap, py - 1, px)) \div 2
            dxx == (at_py(heatmap, py, px + 2) - 2 * at_py(heatmap, py, px)
                    + at_py(heatmap, py, px - 2)) \div 4
            dxy == (at_py(heatmap, py + 1, px + 1) - at_py(heatmap, py - 1, px + 1)
                    - at_py(heatmap, py + 1, px - 1) + at_py(heatmap, py - 1, px - 1)) \div 4
            dyy == (at_py(heatmap, py + 2, px) - 2 * at_py(heatmap, py, px)
                    + at_py(heatmap, py - 2, px)) \div 4
            det == dxx * dyy - dxy * dxy
        IN  IF AnyNaN(reads) THEN NaNCoord
            ELSE IF det # 0
            THEN <<coord[1] - Quot(dyy * dx - dxy * dy, det),
                   coord[2] - Quot(dxx * dy - dxy * dx, det)>>
            ELSE coord

\* the +/-0.25 shift of one keypoint
shift_guard_low(px, py, W, H) == 0 <= px /\ px < W - 1 /\ 0 <= py /\ py < H - 1
shift_guard(px, py, W, H) == 1 < px /\ px < W - 1 /\ 1 < py /\ py < H - 1

\* the elements <<row, column>> of heatmap that lines 483-486 read
shift_reads(px, py) == {<<py, px + 1>>, <<py, px - 1>>, <<py + 1, px>>, <<py - 1, px>>}

shift_quarter(heatmap, coord) ==
    LET H == Dim(heatmap)
        W == Dim(heatmap[0])
        px == TruncInt(coord[1])
        py == TruncInt(coord[2])
    IN  IF ~shift_guard(px, py, W, H) THEN coord
        ELSE IF AnyNaN({at_py(heatmap, c[1], c[2]) : c \in shift_reads(px, py)})
        THEN NaNCoord
        ELSE <<coord[1] + Sign(at_py(heatmap, py, px + 1) - at_py(heatmap, py, px - 1))
                            * (CoordScale \div 4),
               coord[2] + Sign(at_py(heatmap, py + 1, px) - at_py(heatmap, py - 1, px))
                            * (CoordScale \div 4)>>

(***************************************************************************)
(* post_dark.  It blurs channel [0, j] of the array it is given, in place, *)
(* once for every instance i of the batch, and reads the neighbourhood of  *)
(* every keypoint (i, j) from channel [0, j].                              *)
(***************************************************************************)
RECURSIVE blur_times(_, _)
blur_times(hm, n) == IF n = 0 THEN hm ELSE blur_times(GaussianBlur(hm, 3, 3), n - 1)

\* lines 273-277: the caller's array after the blur loops
dark_blur(hms) ==
    ndarray([i \in DOMAIN hms |-> [j \in DOMAIN hms[i] |->
        IF i = 0 THEN blur_times(hms[0][j], Dim(hms)) ELSE hms[i][j]]])

\* the padded log-heatmap: edge replication by one cell
Clamp(i, len) == IF i < 0 THEN 0 ELSE IF i >= len THEN len - 1 ELSE i
pad_at(logmap, yy, xx) ==
    logmap[Clamp(yy - 1, Dim(logmap))][Clamp(xx - 1, Dim(logmap[0]))]

\* One component of inv(hessian + 1e-8 * I) @ derivative, where a is the
\* component of adj(hessian) @ derivative, g that of derivative, det0 the
\* determinant and tr the trace of hessian: (a + e*g) / (det0 + e*tr + e*e)
\* with e = 1e-8 below every difference the model holds.
dark_component(a, g, det0, tr) ==
    IF det0 # 0 THEN Quot(a, det0)
    ELSE IF a # 0 THEN Sign(a) * Sign(tr) * OffsetCap
    ELSE IF tr # 0 THEN Quot(g, tr)
    ELSE Sign(g) * OffsetCap

\* the instance whose channel the keypoint (i, j) is read from
dark_source(i) == 0

\* the elements <<row, column>> of the padded channel that lines 300-313 read
dark_reads(cx, cy) ==
    {<<cy + 1, cx + 1>>, <<cy + 1, cx + 2>>, <<cy + 1, cx>>, <<cy + 2, cx + 1>>,
     <<cy, cx + 1>>, <<cy + 2, cx + 2>>, <<cy, cx>>}

\* lines 300-328 for keypoint (i, j): the derivative and the hessian
dark_derivatives(logs, i, j, coord) ==
    LET lm == logs[dark_source(i)][j]
        PH == Dim(lm) + 2
        PW == Dim(lm[0]) + 2
        cx == TruncInt(coord[1])
        cy == TruncInt(coord[2])
        at(yy, xx) == pad_at(lm, PyIdx(yy, PH), PyIdx(xx, PW))
        i_ == at(cy + 1, cx + 1)
        ix1 == at(cy + 1, cx + 2)
        ix1_ == at(cy + 1, cx)
        iy1 == at(cy + 2, cx + 1)
        iy1_ == at(cy, cx + 1)
        ix1y1 == at(cy + 2, cx + 2)
        ix1_y1_ == at(cy, cx)
    IN  IF AnyNaN({at(c[1], c[2]) : c \in dark_reads(cx, cy)})
        THEN [nan |-> TRUE, dx |-> 0, dy |-> 0, dxx |-> 0, dyy |-> 0, dxy |-> 0]
        ELSE [nan |-> FALSE,
              dx |-> (ix1 - ix1_) \div 2,
              dy |-> (iy1 - iy1_) \div 2,
              dxx |-> ix1 - 2 * i_ + ix1_,
              dyy |-> iy1 - 2 * i_ + iy1_,
              dxy |-> (ix1y1 - ix1 - iy1 + i_ + i_ - ix1_ - iy1_ + ix1_y1_) \div 2]

\* the sign of det(hessian + 1e-8 * I) = det0 + e * tr + e * e
hessian_unregularised(det0, tr) == Sign(det0)
hessian_tmp_det(det0, tr) ==
    IF det0 # 0 THEN Sign(det0) ELSE IF tr # 0 THEN Sign(tr) ELSE 1

\* line 332: np.linalg.inv raises on a singular matrix, not on one of NaN
inv_error(d) ==
    IF ~d.nan /\ hessian_tmp_det(d.dxx * d.dyy - d.dxy * d.dxy, d.dxx + d.dyy) = 0
    THEN "LinAlgError" ELSE "none"

\* lines 329-338 for one keypoint
dark_shift(d, cx, cy) ==
    IF d.nan THEN NaNCoord
    ELSE <<cx * CoordScale
             - dark_component(d.dyy * d.dx - d.dxy * d.dy, d.dx,
                              d.dxx * d.dyy - d.dxy * d.dxy, d.dxx + d.dyy),
           cy * CoordScale
             - dark_component(d.dxx * d.dy - d.dxy * d.dx, d.dy,
                              d.dxx * d.dyy - d.dxy * d.dxy, d.dxx + d.dyy)>>

dark_refine(logs, i, j, coord) ==
    dark_shift(dark_derivatives(logs, i, j, coord), TruncInt(coord[1]), TruncInt(coord[2]))

\* [heatmaps |-> the array passed in, after the call, err |-> "none" or the
\* exception raised, coords |-> the result]
post_dark(coords, batch_heatmaps) ==
    LET blurred == dark_blur(batch_heatmaps)
        logs == ndarray([i \in DOMAIN blurred |-> [j \in DOMAIN blurred[i] |->
                    [y \in DOMAIN blurred[i][j] |-> [x \in DOMAIN blurred[i][j][y] |->
                        log_clip(blurred[i][j][y][x])]]]])
    IN  IF \E i \in DOMAIN coords : \E j \in DOMAIN coords[i] :
               inv_error(dark_derivatives(logs, i, j, coords[i][j])) # "none"
        THEN [heatmaps |-> blurred, err |-> "LinAlgError", coords |-> None]
        ELSE [heatmaps |-> blurred, err |-> "none",
              coords |-> [i \in DOMAIN coords |-> [j \in DOMAIN coords[i] |->
                            dark_refine(logs, i, j, coords[i][j])]]]

(***************************************************************************)
(* transform_preds (mmpose.core.post_processing): heatmap coordinates to   *)
(* image coordinates.  scale is held multiplied by the pixel standard 200, *)
(* that is as the box size in pixels; center is a coordinate.              *)
(***************************************************************************)
transform_axis(c, center, size, out, use_udp) ==
    IF IsNaN(c) THEN NaN
    ELSE DivRound(c * size, IF use_udp THEN out - 1 ELSE out)
         + center - (size * CoordScale) \div 2

transform_preds(coords, center, scale, output_size, use_udp) ==
    [k \in DOMAIN coords |->
        <<transform_axis(coords[k][1], center[1], scale[1], output_size[1], use_udp),
          transform_axis(coords[k][2], center[2], scale[2], output_size[2], use_udp)>>]

(***************************************************************************)
(* keypoints_from_heatmaps.  The value is                                  *)
(*   [heatmaps |-> the caller's array after the call,                      *)
(*    err |-> "none" or the exception raised,                              *)
(*    preds |-> ..., maxvals |-> ...]                                      *)
(***************************************************************************)
\* kpd / 64 * H with kpd = 3.5, applied to an offset-map value v; the
\* result is a coordinate offset
kps_pos_distance(v, H) ==
    IF IsNaN(v) THEN NaN ELSE DivRound(v * 35 * H * CoordScale, 640 * HeatScale)

\* use_udp, target_type 'CombinedTarget': works on net_output, a copy
combined_decode(hms, kernel) ==
    LET N == Dim(hms)
        K == Dim(hms[0])
        H == Dim(hms[0][0])
        J == (K + 2) \div 3
        heat == ndarray([i \in Idx(N) |-> [j \in Idx(J) |->
                    GaussianBlur(hms[i][3 * j], 2 * kernel + 1, 2 * kernel + 1)]])
        offset_x == ndarray([i \in Idx(N) |-> [j \in Idx(J) |->
                        GaussianBlur(hms[i][3 * j + 1], kernel, kernel)]])
        offset_y == ndarray([i \in Idx(N) |-> [j \in Idx(J) |->
                        GaussianBlur(hms[i][3 * j + 2], kernel, kernel)]])
        mx == _get_max_preds(heat)
        W == Dim(hms[0][0][0])
        coords == [n \in Idx(N) |-> [q \in Idx(J) |->
                    LET px == PyIdx(TruncInt(mx.preds[n][q][1]), W)
                        py == PyIdx(TruncInt(mx.preds[n][q][2]), H)
                        ox == kps_pos_distance(offset_x[n][q][py][px], H)
                        oy == kps_pos_distance(offset_y[n][q][py][px], H)
                    IN  <<IF IsNaN(ox) THEN NaN ELSE mx.preds[n][q][1] + ox,
                          IF IsNaN(oy) THEN NaN ELSE mx.preds[n][q][2] + oy>>]]
    IN  [heatmaps |-> hms, err |-> "none", coords |-> coords, maxvals |-> mx.maxvals]

\* the asserts on kernel (lines 467 and 365), and the empty slice
\* dr[0:-0, 0:-0] of line 377 when border = 0
blur_error(kernel) ==
    IF kernel <= 0 \/ kernel % 2 # 1 THEN "AssertionError"
    ELSE IF kernel = 1 THEN "ValueError"
    ELSE "none"

\* the biased branch: lines 464-487
biased_decode(hms, post_process, unbiased, kernel) ==
    LET mx == _get_max_preds(hms)
    IN  IF ~post_process
        THEN [heatmaps |-> hms, err |-> "none", coords |-> mx.preds,
              maxvals |-> mx.maxvals]
        ELSE IF unbiased
        THEN LET blurred == _gaussian_blur(hms, kernel)
                 logs == ndarray([n \in DOMAIN blurred |-> [k \in DOMAIN blurred[n] |->
                            [y \in DOMAIN blurred[n][k] |->
                                [x \in DOMAIN blurred[n][k][y] |->
                                    log_floor(blurred[n][k][y][x])]]]])
             IN  [heatmaps |-> blurred, err |-> "none",
                  coords |-> [n \in DOMAIN hms |-> [k \in DOMAIN hms[n] |->
                                _taylor(logs[n][k], mx.preds[n][k])]],
                  maxvals |-> mx.maxvals]
        ELSE [heatmaps |-> hms, err |-> "none",
              coords |-> [n \in DOMAIN hms |-> [k \in DOMAIN hms[n] |->
                            shift_quarter(hms[n][k], mx.preds[n][k])]],
              maxvals |-> mx.maxvals]

\* the use_udp branch with target_type 'GaussianHeatMap': lines 433-435
udp_decode(hms, post_process) ==
    LET mx == _get_max_preds(hms)
    IN  IF post_process
        THEN LET d == post_dark(mx.preds, hms)
             IN  [heatmaps |-> d.heatmaps, err |-> d.err, coords |-> d.coords,
                  maxvals |-> mx.maxvals]
        ELSE [heatmaps |-> hms, err |-> "none", coords |-> mx.preds,
              maxvals |-> mx.maxvals]

decode_error(o) ==
    IF o.use_udp
    THEN IF o.target_type \in {"GaussianHeatMap", "CombinedTarget"} THEN "none"
         ELSE "AssertionError"
    ELSE IF o.post_process /\ o.unbiased THEN blur_error(o.kernel) ELSE "none"

\* lines 431-487: the branch taken on use_udp and target_type
decode_coords(hms, o) ==
    IF o.use_udp
    THEN IF o.target_type = "GaussianHeatMap" THEN udp_decode(hms, o.post_process)
         ELSE combined_decode(hms, o.kernel)
    ELSE biased_decode(hms, o.post_process, o.unbiased, o.kernel)

\* lines 489-494: every instance's coordinates back to the image; r is the
\* value of decode_coords
decode_return(r, center, scale, W, H, use_udp) ==
    IF r.err # "none"
    THEN [heatmaps |-> r.heatmaps, err |-> r.err, preds |-> None, maxvals |-> None]
    ELSE [heatmaps |-> r.heatmaps, err |-> "none",
          preds |-> [i \in DOMAIN r.coords |->
                        transform_preds(r.coords[i], center[i], scale[i], <<W, H>>, use_udp)],
          maxvals |-> r.maxvals]

keypoints_from_heatmaps(hms, center, scale, o) ==
    IF decode_error(o) # "none"
    THEN [heatmaps |-> hms, err |-> decode_error(o), preds |-> None, maxvals |-> None]
    ELSE decode_return(decode_coords(hms, o), center, scale,
                       Dim(hms[0][0][0]), Dim(hms[0][0]), o.use_udp)

(***************************************************************************)
(* Specification SpecDecode: a caller holds a heatmap batch, center and    *)
(* scale, and calls keypoints_from_heatmaps on them, then a second time on *)
(* the same objects.  Between the two calls it may decode a second batch,  *)
(* alt, that differs from the first in the heatmaps of one instance.       *)
(***************************************************************************)
MaxPeak == 3

\* heatmaps are square: peaks at 2 .. MaxPeak are two cells from every border
DecodeSize == MaxPeak + 3
PeakCells == {<<x, y>> : x \in 2 .. MaxPeak, y \in 2 .. MaxPeak}

OneHot(H, W, x0, y0, a) ==
    [y \in Idx(H) |-> [x \in Idx(W) |-> IF x = x0 /\ y = y0 THEN a ELSE 0]]
ConstMap(H, W, v) == [y \in Idx(H) |-> [x \in Idx(W) |-> v]]

PeakMap(c) == GaussianBlur(OneHot(DecodeSize, DecodeSize, c[1], c[2], HeatScale), 3, 3)
ZeroMap == ConstMap(DecodeSize, DecodeSize, 0)
DecodeMaps == {ZeroMap} \cup {PeakMap(c) : c \in PeakCells}
\* the heatmaps of the instances after the first, and of a replaced instance
RestMaps == {ZeroMap, PeakMap(<<2, 2>>)}

Options(pp, ub, ks, udp, tt) ==
    [post_process |-> pp, unbiased |-> ub, kernel |-> ks, use_udp |-> udp,
     target_type |-> tt]
DecodeOptions ==
    {Options(FALSE, FALSE, 11, FALSE, "GaussianHeatMap"),
     Options(TRUE, FALSE, 11, FALSE, "GaussianHeatMap"),
     Options(TRUE, TRUE, 3, FALSE, "GaussianHeatMap"),
     Options(TRUE, TRUE, 4, FALSE, "GaussianHeatMap"),
     Options(TRUE, FALSE, 11, TRUE, "GaussianHeatMap"),
     Options(FALSE, FALSE, 11, TRUE, "GaussianHeatMap"),
     Options(TRUE, FALSE, 3, TRUE, "CombinedTarget"),
     Options(TRUE, FALSE, 11, TRUE, "Other"),
     Options(FALSE, FALSE, 11, FALSE, "Other"),
     Options(TRUE, FALSE, 11, FALSE, "Other")}

\* the channels of one instance: one heatmap, or for CombinedTarget a
\* heatmap and its two offset maps
InstanceOf(o, hm) ==
    IF o.target_type = "CombinedTarget"
    THEN [k \in Idx(3) |->
            CASE k = 0 -> hm
              [] k = 1 -> ConstMap(DecodeSize, DecodeSize, HeatScale)
              [] k = 2 -> ConstMap(DecodeSize, DecodeSize, -(HeatScale \div 2))]
    ELSE [k \in Idx(1) |-> hm]

\* what the caller receives: (preds, maxvals), or the exception raised
Returned(r) == [err |-> r.err, preds |-> r.preds, maxvals |-> r.maxvals]
NotCalled == [err |-> "not called", preds |-> None, maxvals |-> None]

InitDecode ==
    /\ pc = "ready"
    /\ \E N \in {1, 2}, o \in DecodeOptions :
       \E first \in DecodeMaps, rest \in RestMaps, j \in Idx(N), other \in RestMaps :
          /\ heatmaps = [i \in Idx(N) |-> InstanceOf(o, IF i = 0 THEN first ELSE rest)]
          /\ alt = [i \in Idx(N) |->
                        InstanceOf(o, IF i = j THEN other ELSE IF i = 0 THEN first ELSE rest)]
          /\ args = [center |-> [i \in Idx(N) |->
                                    <<(DecodeSize * CoordScale) \div 2 + i * CoordScale,
                                      (DecodeSize * CoordScale) \div 2>>],
                     scale |-> [i \in Idx(N) |-> <<DecodeSize, DecodeSize>>],
                     o |-> o, replaced |-> j]
    /\ ret = NotCalled /\ prev = NotCalled /\ altRet = NotCalled
    /\ shared = None

Decode ==
    /\ pc \in {"ready", "called"}
    /\ \E r \in {keypoints_from_heatmaps(heatmaps, args.center, args.scale, args.o)} :
           /\ heatmaps' = r.heatmaps
           /\ ret' = Returned(r)
    /\ prev' = ret
    /\ pc' = IF pc = "ready" THEN "called" ELSE "retried"
    /\ UNCHANGED <<args, alt, altRet, shared>>

DecodeAlt ==
    /\ pc = "called"
    /\ altRet.err = NotCalled.err
    /\ \E r \in {keypoints_from_heatmaps(alt, args.center, args.scale, args.o)} :
           /\ alt' = r.heatmaps
           /\ altRet' = Returned(r)
    /\ UNCHANGED <<pc, heatmaps, args, ret, prev, shared>>

NextDecode == Decode \/ DecodeAlt

SpecDecode == InitDecode /\ [][NextDecode]_vars

(***************************************************************************)
(* Specification SpecBlur: a caller holds a heatmap batch and calls        *)
(* _gaussian_blur(heatmaps, kernel) on it.  prev is the copy of the batch  *)
(* the caller took before the call.                                        *)
(***************************************************************************)
BlurH == 3
BlurW == 4
BlurKernels == {1, 2, 3, 4, 5}

\* [heatmaps |-> the caller's array after the call, err |-> "none" or the
\* exception raised, out |-> the array returned]
gaussian_blur_call(hms, kernel) ==
    IF blur_error(kernel) # "none"
    THEN [heatmaps |-> hms, err |-> blur_error(kernel), out |-> None]
    ELSE [heatmaps |-> _gaussian_blur(hms, kernel), err |-> "none",
          out |-> _gaussian_blur(hms, kernel)]

\* a channel with two peaks of different heights
TwoPeakMap(H, W) ==
    [y \in Idx(H) |-> [x \in Idx(W) |->
        IF x = 0 /\ y = 0 THEN HeatScale
        ELSE IF x = W - 1 /\ y = H - 1 THEN 2 * HeatScale ELSE 0]]

BlurMaps ==
    {ConstMap(BlurH, BlurW, v) : v \in {0, HeatScale, -HeatScale}}
        \cup {OneHot(BlurH, BlurW, x, y, HeatScale) : x \in Idx(BlurW), y \in Idx(BlurH)}
        \cup {TwoPeakMap(BlurH, BlurW)}

InitBlur ==
    /\ pc = "blur_ready"
    /\ \E N \in {1, 2}, first \in BlurMaps, rest \in {ConstMap(BlurH, BlurW, 0),
                                                     TwoPeakMap(BlurH, BlurW)} :
          heatmaps = [i \in Idx(N) |-> [j \in Idx(1) |-> IF i = 0 THEN first ELSE rest]]
    /\ \E kernel \in BlurKernels : args = [kernel |-> kernel]
    /\ ret = None /\ prev = None /\ alt = None /\ altRet = None
    /\ shared = None

Blur ==
    /\ pc = "blur_ready"
    /\ \E r \in {gaussian_blur_call(heatmaps, args.kernel)} :
           /\ heatmaps' = r.heatmaps
           /\ ret' = [err |-> r.err, out |-> r.out]
    /\ prev' = heatmaps
    /\ pc' = "blur_done"
    /\ UNCHANGED <<args, alt, altRet, shared>>

NextBlur == Blur

SpecBlur == InitBlur /\ [][NextBlur]_vars

(***************************************************************************)
(* Metrics: _calc_distances, _distance_acc, keypoint_pck_accuracy,         *)
(* keypoint_auc, keypoint_epe                                              *)
(*                                                                         *)
(* Keypoint coordinates and normalize factors are integers here; a         *)
(* distance d and a threshold are the integers d * DistScale (the norm     *)
(* rounded down), so d < thr is decided exactly for every threshold that   *)
(* is a multiple of 1 / DistScale.  Accuracies are exact rationals <<p, q>>*)
(* in lowest terms with q > 0.                                             *)
(***************************************************************************)
DistScale == 600

RECURSIVE GCD(_, _)
GCD(a, b) == IF b = 0 THEN a ELSE GCD(b, a % b)
Rat(p, q) == LET g == GCD(Abs(p), Abs(q)) IN <<p \div g, q \div g>>
RAdd(a, b) == Rat(a[1] * b[2] + b[1] * a[2], a[2] * b[2])
RDivInt(a, m) == Rat(a[1], a[2] * m)
RLe(a, b) == a[1] * b[2] <= b[1] * a[2]

\* floor of the square root, by bisection
RECURSIVE isqrt_bs(_, _, _)
isqrt_bs(v, lo, hi) ==
    IF lo >= hi THEN lo
    ELSE LET mid == (lo + hi + 1) \div 2
         IN  IF mid * mid <= v THEN isqrt_bs(v, mid, hi) ELSE isqrt_bs(v, lo, mid - 1)
isqrt(v) == isqrt_bs(v, 0, 46340)

\* np.linalg.norm((pred - target) / normalize) of one keypoint
norm_dist(p, t, nrm) ==
    LET dx == p[1] - t[1]
        dy == p[2] - t[2]
    IN  isqrt(((dx * dx * nrm[2] * nrm[2] + dy * dy * nrm[1] * nrm[1])
               * DistScale * DistScale) \div (nrm[1] * nrm[1] * nrm[2] * nrm[2]))

\* The True positions of a boolean array in row-major order, as numpy's
\* boolean indexing visits them: TrueSeq(R, C, m) lists the <<r, c>> with
\* m[r][c], rows first.
RECURSIVE true_seq(_, _, _, _)
true_seq(R, C, m, i) ==
    IF i = R * C THEN <<>>
    ELSE (IF m[i \div C][i % C] THEN << <<i \div C, i % C>> >> ELSE <<>>)
         \o true_seq(R, C, m, i + 1)
TrueSeq(R, C, m) == true_seq(R, C, m, 0)

PosIn(seq, e) == CHOOSE i \in 1 .. Len(seq) : seq[i] = e

\* distances = np.full((K, N), -1); distances[mask.T] = norm(...[mask]):
\* the i-th True position of mask.T (rows k first) receives the distance of
\* the i-th True position of mask (rows n first).
transposed_assign(N, K, mask, vals) ==
    LET maskT == [k \in Idx(K) |-> [n \in Idx(N) |-> mask[n][k]]]
        dst == TrueSeq(K, N, maskT)
    IN  [k \in Idx(K) |-> [n \in Idx(N) |->
            IF maskT[k][n] THEN vals[PosIn(dst, <<k, n>>)] ELSE -1]]

\* what the assignment would be if the distances were written where they
\* were read: distances[k][n] from (n, k)
aligned_assign(N, K, mask, vals) ==
    LET src == TrueSeq(N, K, mask)
    IN  [k \in Idx(K) |-> [n \in Idx(N) |->
            IF mask[n][k] THEN vals[PosIn(src, <<n, k>>)] ELSE -1]]

_calc_distances(preds, targets, mask, normalize) ==
    LET N == Dim(preds)
        K == Dim(preds[0])
        src == TrueSeq(N, K, mask)
        vals == [i \in 1 .. Len(src) |->
                    norm_dist(preds[src[i][1]][src[i][2]],
                              targets[src[i][1]][src[i][2]],
                              normalize[src[i][1]])]
    IN  transposed_assign(N, K, mask, vals)

\* _distance_acc of one row of distances
distance_lt_le(d, thr) == d <= thr
distance_gt(d, thr) == d > thr
distance_lt(d, thr) == d < thr

_distance_acc(distances, thr) ==
    LET distance_valid == {n \in DOMAIN distances : distances[n] # -1}
        num_distance_valid == Cardinality(distance_valid)
    IN  IF num_distance_valid > 0
        THEN Rat(Cardinality({n \in distance_valid : distance_lt(distances[n], thr)}),
                 num_distance_valid)
        ELSE <<-1, 1>>

RECURSIVE rat_sum(_, _)
rat_sum(f, S) ==
    IF S = {} THEN <<0, 1>>
    ELSE LET e == CHOOSE x \in S : TRUE IN RAdd(f[e], rat_sum(f, S \ {e}))

\* the filter of valid_acc = acc[acc >= 0]
acc_any(a) == TRUE
acc_ge_zero(a) == RLe(<<0, 1>>, a)

keypoint_pck_accuracy(pred, gt, mask, thr, normalize) ==
    LET distances == _calc_distances(pred, gt, mask, normalize)
        acc == [k \in DOMAIN distances |-> _distance_acc(distances[k], thr)]
        valid_acc == {k \in DOMAIN acc : acc_ge_zero(acc[k])}
        cnt == Cardinality(valid_acc)
        avg_acc == IF cnt > 0 THEN RDivInt(rat_sum(acc, valid_acc), cnt) ELSE <<0, 1>>
    IN  [acc |-> acc, avg_acc |-> avg_acc, cnt |-> cnt]

\* x = [1.0 * i / num_step for i in range(num_step)]
auc_thresholds_from_one(num_step) == [i \in Idx(num_step) |-> ((i + 1) * DistScale) \div num_step]
auc_thresholds(num_step) == [i \in Idx(num_step) |-> (i * DistScale) \div num_step]

keypoint_auc(pred, gt, mask, normalize, num_step) ==
    LET nor == [n \in DOMAIN pred |-> <<normalize, normalize>>]
        x == auc_thresholds(num_step)
        y == [i \in Idx(num_step) |->
                keypoint_pck_accuracy(pred, gt, mask, x[i], nor).avg_acc]
        scaled == [i \in Idx(num_step) |-> RDivInt(y[i], num_step)]
    IN  rat_sum(scaled, Idx(num_step))

\* distance_valid.sum() / valid_num; with no valid distance this is the
\* float division 0.0 / 0, whose value is NaN.
epe_mean(total, valid_num) == IF valid_num = 0 THEN NaN ELSE total \div valid_num

RECURSIVE int_sum(_, _)
int_sum(f, S) ==
    IF S = {} THEN 0
    ELSE LET e == CHOOSE x \in S : TRUE IN f[e] + int_sum(f, S \ {e})

keypoint_epe(pred, gt, mask) ==
    LET distances == _calc_distances(pred, gt, mask, [n \in DOMAIN pred |-> <<1, 1>>])
        cells == {<<k, n>> : k \in DOMAIN distances, n \in DOMAIN distances[0]}
        valid == {c \in cells : distances[c[1]][c[2]] # -1}
        flat == [c \in valid |-> distances[c[1]][c[2]]]
    IN  epe_mean(int_sum(flat, valid), Cardinality(valid))

(***************************************************************************)
(* Specification SpecMetric: a caller holds pred, gt, mask and normalize   *)
(* and calls the three metric functions on them.                           *)
(***************************************************************************)
MaxDelta == 1
MaxStep == 2

MetricShapes == {<<1, 1>>, <<1, 2>>, <<2, 1>>, <<2, 2>>}
\* pred - gt of one keypoint
Deltas == {<<d, 0>> : d \in 0 .. MaxDelta} \cup {<<3, 4>>}
Thresholds == UNION {{(i * DistScale) \div s : i \in 0 .. s} : s \in 1 .. MaxStep}
Gt(N, K) == [n \in Idx(N) |-> [k \in Idx(K) |-> <<2 * n + k, k + 1>>]]

InitMetric ==
    /\ pc = "metric_ready"
    /\ \E shape \in MetricShapes :
        LET N == shape[1]
            K == shape[2]
        IN  \E d \in [Idx(N) -> [Idx(K) -> Deltas]],
               mask \in [Idx(N) -> [Idx(K) -> BOOLEAN]],
               nrm \in {[n \in Idx(N) |-> <<1, 1>>], [n \in Idx(N) |-> <<n + 1, 2>>]} :
                args = [pred |-> [n \in Idx(N) |-> [k \in Idx(K) |->
                                    <<Gt(N, K)[n][k][1] + d[n][k][1],
                                      Gt(N, K)[n][k][2] + d[n][k][2]>>]],
                        gt |-> Gt(N, K), mask |-> mask, normalize |-> nrm]
    /\ heatmaps = None /\ ret = None /\ prev = None /\ alt = None /\ altRet = None
    /\ shared = None

CallPck ==
    /\ pc = "metric_ready"
    /\ \E thr \in Thresholds :
        ret' = [call |-> "pck", thr |-> thr,
                out |-> keypoint_pck_accuracy(args.pred, args.gt, args.mask, thr,
                                              args.normalize)]
    /\ pc' = "metric_done"
    /\ UNCHANGED <<heatmaps, args, prev, alt, altRet, shared>>

\* the caller evaluates the PCK a second time on the same data, at a
\* threshold that is not below the first
CallPckAgain ==
    /\ pc = "metric_done"
    /\ ret.call = "pck"
    /\ \E thr \in Thresholds :
        /\ ret.thr <= thr
        /\ ret' = [call |-> "pck", thr |-> thr,
                   out |-> keypoint_pck_accuracy(args.pred, args.gt, args.mask, thr,
                                                 args.normalize)]
    /\ prev' = ret
    /\ pc' = "metric_again"
    /\ UNCHANGED <<heatmaps, args, alt, altRet, shared>>

CallCalcDistances ==
    /\ pc = "metric_ready"
    /\ ret' = [call |-> "distances",
               out |-> _calc_distances(args.pred, args.gt, args.mask, args.normalize)]
    /\ pc' = "metric_done"
    /\ UNCHANGED <<heatmaps, args, prev, alt, altRet, shared>>

CallAuc ==
    /\ pc = "metric_ready"
    /\ \E num_step \in 1 .. MaxStep, normalize \in {1, 2} :
        ret' = [call |-> "auc", num_step |-> num_step, normalize |-> normalize,
                out |-> keypoint_auc(args.pred, args.gt, args.mask, normalize, num_step)]
    /\ pc' = "metric_done"
    /\ UNCHANGED <<heatmaps, args, prev, alt, altRet, shared>>

CallEpe ==
    /\ pc = "metric_ready"
    /\ ret' = [call |-> "epe", out |-> keypoint_epe(args.pred, args.gt, args.mask)]
    /\ pc' = "metric_done"
    /\ UNCHANGED <<heatmaps, args, prev, alt, altRet, shared>>

NextMetric == CallPck \/ CallPckAgain \/ CallCalcDistances \/ CallAuc \/ CallEpe

SpecMetric == InitMetric /\ [][NextMetric]_vars

(***************************************************************************)
(* pose_pck_accuracy: the PCK of two heatmap batches.                      *)
(***************************************************************************)
\* normalize=None
NoNormalize == <<>>

\* the coordinates of _get_max_preds, which are whole numbers, in cells
in_cells(preds) ==
    [n \in DOMAIN preds |-> [k \in DOMAIN preds[n] |->
        <<preds[n][k][1] \div CoordScale, preds[n][k][2] \div CoordScale>>]]

\* With normalize=None the factor is np.array([[H, W]]) / 10 for every
\* instance: the distances and the threshold are then both held divided by
\* 10, the factor being <<H, W>>.
pose_pck_accuracy(output, target, mask, thr, normalize) ==
    IF Dim(output[0]) = 0 THEN [acc |-> None, avg_acc |-> <<0, 1>>, cnt |-> 0]
    ELSE LET H == Dim(output[0][0])
             W == Dim(output[0][0][0])
             pred == in_cells(_get_max_preds(output).preds)
             gt == in_cells(_get_max_preds(target).preds)
         IN  IF normalize = NoNormalize
             THEN keypoint_pck_accuracy(pred, gt, mask, thr \div 10,
                                        [n \in DOMAIN output |-> <<H, W>>])
             ELSE keypoint_pck_accuracy(pred, gt, mask, thr, normalize)

(***************************************************************************)
(* Specification SpecPose: a caller holds the output and target heatmaps   *)
(* of a batch, and the mask, and calls pose_pck_accuracy on them.          *)
(* heatmaps is output and alt is target.                                   *)
(***************************************************************************)
\* a channel is all zero (the keypoint is absent) or has one peak
PoseMaps ==
    {ConstMap(MaxH, MaxW, 0)}
        \cup {OneHot(MaxH, MaxW, x, y, HeatScale) : x \in Idx(MaxW), y \in Idx(MaxH)}
PoseThresholds == {DistScale \div 2, DistScale, 4 * DistScale}

InitPose ==
    /\ pc = "pose_ready"
    /\ \E shape \in MetricShapes :
        LET N == shape[1]
            K == shape[2]
        IN  \E o \in PoseMaps, t \in PoseMaps,
               mask \in [Idx(N) -> [Idx(K) -> BOOLEAN]],
               nrm \in {NoNormalize, [n \in Idx(N) |-> <<1, 1>>]},
               thr \in PoseThresholds :
                /\ heatmaps = [n \in Idx(N) |-> [k \in Idx(K) |->
                                 IF n = 0 /\ k = 0 THEN o
                                 ELSE OneHot(MaxH, MaxW, k % MaxW, n % MaxH, HeatScale)]]
                /\ alt = [n \in Idx(N) |-> [k \in Idx(K) |->
                            IF n = 0 /\ k = 0 THEN t
                            ELSE OneHot(MaxH, MaxW, n % MaxW, n % MaxH, HeatScale)]]
                /\ args = [mask |-> mask, thr |-> thr, normalize |-> nrm]
    /\ ret = None /\ prev = None /\ altRet = None
    /\ shared = None

PosePck ==
    /\ pc = "pose_ready"
    /\ ret' = pose_pck_accuracy(heatmaps, alt, args.mask, args.thr, args.normalize)
    /\ pc' = "pose_done"
    /\ UNCHANGED <<heatmaps, args, prev, alt, altRet, shared>>

NextPose == PosePck

SpecPose == InitPose /\ [][NextPose]_vars


(***************************************************************************)
(* Specification SpecRoundTrip: one keypoint at a heatmap cell is encoded  *)
(* as a one-hot blurred by cv2.GaussianBlur, and the caller decodes the    *)
(* heatmap with center and scale chosen so that transform_preds is the     *)
(* identity.                                                               *)
(***************************************************************************)
GridW == 8
GridH == 7

EncodeKernels == {3, 5, 7}
RoundTripOptions ==
    {Options(TRUE, FALSE, 11, FALSE, "GaussianHeatMap"),
     Options(TRUE, FALSE, 11, TRUE, "GaussianHeatMap")}
    \cup {Options(TRUE, TRUE, ks, FALSE, "GaussianHeatMap") : ks \in EncodeKernels}

\* center and bounding box size for which transform_preds changes nothing
IdentityCenter(use_udp) ==
    IF use_udp THEN <<((GridW - 1) * CoordScale) \div 2, ((GridH - 1) * CoordScale) \div 2>>
    ELSE <<(GridW * CoordScale) \div 2, (GridH * CoordScale) \div 2>>
IdentityScale(use_udp) == IF use_udp THEN <<GridW - 1, GridH - 1>> ELSE <<GridW, GridH>>

InitRoundTrip ==
    /\ pc = "rt_ready"
    /\ \E x0 \in Idx(GridW), y0 \in Idx(GridH), ks \in EncodeKernels, o \in RoundTripOptions :
          /\ heatmaps = [i \in Idx(1) |-> [k \in Idx(1) |->
                            GaussianBlur(OneHot(GridH, GridW, x0, y0, HeatScale), ks, ks)]]
          /\ args = [center |-> [i \in Idx(1) |-> IdentityCenter(o.use_udp)],
                     scale |-> [i \in Idx(1) |-> IdentityScale(o.use_udp)],
                     o |-> o, keypoint |-> <<x0, y0>>, encode_kernel |-> ks]
    /\ ret = NotCalled /\ prev = NotCalled /\ alt = None /\ altRet = NotCalled
    /\ shared = None

RoundTrip ==
    /\ pc = "rt_ready"
    /\ \E r \in {keypoints_from_heatmaps(heatmaps, args.center, args.scale, args.o)} :
           /\ heatmaps' = r.heatmaps
           /\ ret' = Returned(r)
    /\ pc' = "rt_done"
    /\ UNCHANGED <<args, prev, alt, altRet, shared>>

NextRoundTrip == RoundTrip

SpecRoundTrip == InitRoundTrip /\ [][NextRoundTrip]_vars

(***************************************************************************)
(* Specification SpecShift: the caller decodes, in shift mode and under    *)
(* the identity transform, one channel whose peak is at any cell and whose *)
(* four neighbours of the peak are each zero or half the peak.             *)
(***************************************************************************)
ShiftOptions == Options(TRUE, FALSE, 11, FALSE, "GaussianHeatMap")

\* l, r, u, d: the values at (x0 - 1, y0), (x0 + 1, y0), (x0, y0 - 1), (x0, y0 + 1)
CrossMap(H, W, x0, y0, l, r, u, d) ==
    [y \in Idx(H) |-> [x \in Idx(W) |->
        CASE x = x0 /\ y = y0 -> HeatScale
          [] x = x0 - 1 /\ y = y0 -> l
          [] x = x0 + 1 /\ y = y0 -> r
          [] x = x0 /\ y = y0 - 1 -> u
          [] x = x0 /\ y = y0 + 1 -> d
          [] OTHER -> 0]]

InitShift ==
    /\ pc = "shift_ready"
    /\ \E x0 \in Idx(GridW), y0 \in Idx(GridH) :
       \E l, r, u, d \in {0, HeatScale \div 2} :
          heatmaps = [i \in Idx(1) |-> [k \in Idx(1) |->
                        CrossMap(GridH, GridW, x0, y0, l, r, u, d)]]
    /\ args = [center |-> [i \in Idx(1) |-> IdentityCenter(FALSE)],
               scale |-> [i \in Idx(1) |-> IdentityScale(FALSE)],
               o |-> ShiftOptions]
    /\ ret = NotCalled /\ prev = NotCalled /\ alt = None /\ altRet = NotCalled
    /\ shared = None

ShiftDecode ==
    /\ pc = "shift_ready"
    /\ \E r \in {keypoints_from_heatmaps(heatmaps, args.center, args.scale, args.o)} :
           /\ heatmaps' = r.heatmaps
           /\ ret' = Returned(r)
    /\ pc' = "shift_done"
    /\ UNCHANGED <<args, prev, alt, altRet, shared>>

NextShift == ShiftDecode

SpecShift == InitShift /\ [][NextShift]_vars

(***************************************************************************)
(* Specification SpecTaylor: a caller holds one channel as line 471 leaves *)
(* it (blurred by _gaussian_blur, floored at 1e-10, log-transformed) and a *)
(* coordinate, any cell of the channel or the (-1, -1) of an empty one,    *)
(* and calls _taylor on them.                                              *)
(***************************************************************************)
\* lines 469-471 on one channel
log_channel(raw, kernel) ==
    LET blurred == _gaussian_blur([i \in Idx(1) |-> [k \in Idx(1) |-> raw]], kernel)[0][0]
    IN  ndarray([y \in DOMAIN blurred |-> [x \in DOMAIN blurred[y] |->
                    log_floor(blurred[y][x])]])

TaylorMaps ==
    {log_channel(raw, ks) :
        raw \in {ConstMap(GridH, GridW, HeatScale)}
                    \cup {OneHot(GridH, GridW, c, c, HeatScale) : c \in {2, 3}},
        ks \in {3, 5}}

InitTaylor ==
    /\ pc = "taylor_ready"
    /\ heatmaps \in TaylorMaps
    /\ \E coord \in {Sentinel} \cup
                     {<<x * CoordScale, y * CoordScale>> : x \in Idx(GridW), y \in Idx(GridH)} :
          args = [coord |-> coord]
    /\ ret = None /\ prev = None /\ alt = None /\ altRet = None
    /\ shared = None

Taylor ==
    /\ pc = "taylor_ready"
    /\ ret' = _taylor(heatmaps, args.coord)
    /\ pc' = "taylor_done"
    /\ UNCHANGED <<heatmaps, args, prev, alt, altRet, shared>>

NextTaylor == Taylor

SpecTaylor == InitTaylor /\ [][NextTaylor]_vars

(***************************************************************************)
(* Specification SpecRefine: a caller holds a heatmap batch, whose peaks   *)
(* lie on any cell, border cells included, and whose channels may be       *)
(* empty, keeps a copy of it in alt, and calls keypoints_from_heatmaps on  *)
(* it in each mode, with the center and scale that make transform_preds    *)
(* the identity.  altRet is the set of array elements the refinement read  *)
(* for every keypoint.                                                     *)
(***************************************************************************)
RefineOptions ==
    {Options(FALSE, FALSE, 11, FALSE, "GaussianHeatMap"),
     Options(FALSE, TRUE, 3, FALSE, "GaussianHeatMap"),
     Options(FALSE, FALSE, 11, TRUE, "GaussianHeatMap"),
     Options(FALSE, FALSE, 1, TRUE, "CombinedTarget"),
     Options(TRUE, FALSE, 11, FALSE, "GaussianHeatMap"),
     Options(TRUE, TRUE, 3, FALSE, "GaussianHeatMap"),
     Options(TRUE, FALSE, 11, TRUE, "GaussianHeatMap"),
     Options(TRUE, FALSE, 1, TRUE, "CombinedTarget")}

\* a narrow spike, the maximum, and a lower plateau of 3 x 3 cells
SpikeAndPlateau(H, W) ==
    [y \in Idx(H) |-> [x \in Idx(W) |->
        IF x = 1 /\ y = 1 THEN HeatScale
        ELSE IF Abs(x - (W - 3)) <= 1 /\ Abs(y - (H - 3)) <= 1 THEN (3 * HeatScale) \div 4
        ELSE 0]]

RefineMaps ==
    {ConstMap(GridH, GridW, 0), SpikeAndPlateau(GridH, GridW)}
        \cup {GaussianBlur(OneHot(GridH, GridW, x0, y0, HeatScale), 3, 3) :
                    x0 \in Idx(GridW), y0 \in Idx(GridH)}

\* the elements the refinement of lines 431-487 reads for the keypoint whose
\* integer peak is coord, in a channel of H rows and W columns
refine_reads(o, W, H, coord) ==
    LET px == TruncInt(coord[1])
        py == TruncInt(coord[2])
    IN  IF ~o.post_process \/ (o.use_udp /\ o.target_type = "CombinedTarget") THEN {}
        ELSE IF o.use_udp THEN dark_reads(px, py)
        ELSE IF o.unbiased THEN IF taylor_guard(px, py, W, H) THEN taylor_reads(px, py) ELSE {}
        ELSE IF shift_guard(px, py, W, H) THEN shift_reads(px, py) ELSE {}

InitRefine ==
    /\ pc = "refine_ready"
    /\ \E o \in RefineOptions, first \in RefineMaps,
          rest \in {<<>>, <<ConstMap(GridH, GridW, 0)>>,
                     <<GaussianBlur(OneHot(GridH, GridW, 3, 3, HeatScale), 3, 3)>>} :
          /\ heatmaps = [i \in Idx(1 + Len(rest)) |->
                            IF o.target_type = "CombinedTarget"
                            THEN [k \in Idx(3) |->
                                    CASE k = 0 -> IF i = 0 THEN first ELSE rest[1]
                                      [] k = 1 -> ConstMap(GridH, GridW, HeatScale)
                                      [] k = 2 -> ConstMap(GridH, GridW, -(HeatScale \div 2))]
                            ELSE [k \in Idx(1) |-> IF i = 0 THEN first ELSE rest[1]]]
          /\ args = [center |-> [i \in Idx(1 + Len(rest)) |-> IdentityCenter(o.use_udp)],
                     scale |-> [i \in Idx(1 + Len(rest)) |-> IdentityScale(o.use_udp)],
                     o |-> o]
    /\ alt = heatmaps
    /\ ret = NotCalled /\ prev = NotCalled /\ altRet = NotCalled
    /\ shared = None

Refine ==
    /\ pc = "refine_ready"
    /\ \E r \in {keypoints_from_heatmaps(heatmaps, args.center, args.scale, args.o)} :
           /\ heatmaps' = r.heatmaps
           /\ ret' = Returned(r)
    /\ \E mx \in {_get_max_preds(heatmaps)} :
           altRet' = [i \in DOMAIN heatmaps |-> [k \in DOMAIN heatmaps[i] |->
                        refine_reads(args.o, GridW, GridH, mx.preds[i][k])]]
    /\ pc' = "refine_done"
    /\ UNCHANGED <<args, prev, alt, shared>>

NextRefine == Refine

SpecRefine == InitRefine /\ [][NextRefine]_vars

(***************************************************************************)
(* MegviiHeatmap (mmpose/core/keypoint/codecs/megvii_heatmap.py)           *)
(*                                                                         *)
(* A Megvii heatmap has peak value 255; its values are held as the         *)
(* integers v * MegviiScale.  kernel_size is the pair [ks_x, ks_y] of the  *)
(* class docstring.  Keypoints are coordinates (x, y) in the input image.  *)
(***************************************************************************)
MegviiScale == 128

\* (keypoints[0, k] / feat_stride).astype(np.int64) on one axis, with
\* feat_stride = input_size / heatmap_size: truncation toward zero
stride_cell(c, input, heat) ==
    IF c >= 0 THEN (c * heat) \div (input * CoordScale)
    ELSE -(((-c) * heat) \div (input * CoordScale))

\* one channel of encode: the one-hot, blurred and normalized to 255 at the
\* keypoint's cell
megvii_channel(W, H, kx, ky, kernel_size) ==
    LET blurred == GaussianBlur(OneHot(H, W, kx, ky, HeatScale),
                                kernel_size[1], kernel_size[2])
    IN  ndarray([y \in Idx(H) |-> [x \in Idx(W) |->
            (blurred[y][x] * 255 * MegviiScale) \div blurred[ky][kx]]])

megvii_encode(keypoints, keypoints_visible, input_size, heatmap_size, kernel_size) ==
    LET W == heatmap_size[1]
        H == heatmap_size[2]
        kx(k) == stride_cell(keypoints[0][k][1], input_size[1], W)
        ky(k) == stride_cell(keypoints[0][k][2], input_size[2], H)
        skipped(k) == \/ ~keypoints_visible[0][k]
                      \/ kx(k) < 0 \/ kx(k) >= W \/ ky(k) < 0 \/ ky(k) >= H
    IN  IF Dim(keypoints) # 1
        THEN [err |-> "AssertionError", heatmaps |-> None, keypoint_weights |-> None]
        ELSE [err |-> "none",
              heatmaps |-> [k \in DOMAIN keypoints[0] |->
                              IF skipped(k) THEN ConstMap(H, W, 0)
                              ELSE megvii_channel(W, H, kx(k), ky(k), kernel_size)],
              keypoint_weights |-> [k \in DOMAIN keypoints[0] |->
                                      IF skipped(k) THEN 0 ELSE 1]]

\* codecs/utils.gaussian_blur on (K, H, W): the blur modulator of every
\* channel, written into the array it is given
gaussian_blur(hms, kernel) == ndarray([k \in DOMAIN hms |-> blur_channel(hms[k], kernel)])

\* codecs/utils.get_heatmap_maximum on (K, H, W): the maximum finder
get_heatmap_maximum(hms) ==
    LET mx == _get_max_preds([n \in Idx(1) |-> hms])
    IN  [locs |-> mx.preds[0], vals |-> mx.maxvals[0]]

\* lines 121-129: the shift sign(diff) * 0.25 + 0.5 of one keypoint
megvii_shift(heatmap, coord) ==
    LET moved == shift_quarter(heatmap, coord)
        px == TruncInt(coord[1])
        py == TruncInt(coord[2])
    IN  IF ~shift_guard(px, py, Dim(heatmap[0]), Dim(heatmap)) \/ AnyNaN({moved[1], moved[2]})
        THEN moved
        ELSE <<moved[1] + CoordScale \div 2, moved[2] + CoordScale \div 2>>

\* line 129: scores / 255.0 + 0.5 of one maximum
megvii_score(v) == IF IsNaN(v) THEN NaN ELSE v \div 255 + MegviiScale \div 2

\* decode blurs a copy of encoded; scores is assigned keypoints[None], which
\* replaces the scores of line 129
megvii_decode(encoded, kernel_size) ==
    LET blurred == gaussian_blur(encoded, kernel_size[1])
        mx == get_heatmap_maximum(blurred)
        keypoints == [k \in DOMAIN encoded |-> megvii_shift(blurred[k], mx.locs[k])]
        scores == [k \in DOMAIN encoded |-> megvii_score(mx.vals[k])]
        unsqueezed == [n \in Idx(1) |-> keypoints]
    IN  [keypoints |-> unsqueezed, scores |-> [m \in Idx(1) |-> unsqueezed]]

(***************************************************************************)
(* Specification SpecMegvii: a codec with input_size a multiple of its     *)
(* heatmap_size encodes one instance of two keypoints, and decodes the     *)
(* heatmaps it got.                                                        *)
(***************************************************************************)
MaxStride == 3

MegviiKernels == {<<3, 3>>, <<5, 5>>}

InitMegvii ==
    /\ pc = "megvii_ready"
    /\ \E stride \in 1 .. MaxStride, cx \in Idx(GridW), cy \in Idx(GridH),
          r \in {0, 1}, seen \in BOOLEAN, kernel_size \in MegviiKernels :
          args = [input_size |-> <<GridW * stride, GridH * stride>>,
                  heatmap_size |-> <<GridW, GridH>>,
                  kernel_size |-> kernel_size,
                  keypoints |-> [n \in Idx(1) |-> [k \in Idx(2) |->
                      IF k = 0
                      THEN <<(stride * cx + r * (stride - 1)) * CoordScale,
                             (stride * cy + r * (stride - 1)) * CoordScale>>
                      ELSE <<(GridW * stride * CoordScale) \div 2,
                             (GridH * stride * CoordScale) \div 2>>]],
                  keypoints_visible |-> [n \in Idx(1) |-> [k \in Idx(2) |-> k = 0 \/ seen]]]
    /\ heatmaps = None /\ ret = NotCalled /\ prev = NotCalled /\ alt = None
    /\ altRet = NotCalled
    /\ shared = None

MegviiEncode ==
    /\ pc = "megvii_ready"
    /\ LET e == megvii_encode(args.keypoints, args.keypoints_visible, args.input_size,
                              args.heatmap_size, args.kernel_size)
       IN  /\ heatmaps' = e.heatmaps
           /\ prev' = [err |-> e.err, keypoint_weights |-> e.keypoint_weights]
    /\ pc' = "megvii_encoded"
    /\ UNCHANGED <<args, ret, alt, altRet, shared>>

MegviiDecode ==
    /\ pc = "megvii_encoded"
    /\ ret' = megvii_decode(heatmaps, args.kernel_size)
    /\ pc' = "megvii_decoded"
    /\ UNCHANGED <<heatmaps, args, prev, alt, altRet, shared>>

NextMegvii == MegviiEncode \/ MegviiDecode

SpecMegvii == InitMegvii /\ [][NextMegvii]_vars

(***************************************************************************)
(* demo/webcam_demo_async.py.  Thread "input" runs read_camera: it puts    *)
(* every frame into the bounded Queue frame_buffer and appends it to       *)
(* input_queue.  inference_detection moves input_queue to det_result_queue *)
(* and inference_pose det_result_queue to pose_result_queue (daemon        *)
(* threads).  display, on the main thread, takes frames from frame_buffer  *)
(* and results from pose_result_queue until a key ends its loop, then sets *)
(* event_exit; main then joins the input thread.  The camera delivers a    *)
(* frame at every read.                                                    *)
(* shared holds the number of elements of frame_buffer and of the three    *)
(* deques (maxlen 1), the holder of each mutex, event_exit and the         *)
(* exception a popleft has raised; pc holds the position of each thread.   *)
(***************************************************************************)
\* args.buffer_size
BufferSize == 2

\* len(queue) < 1, the test of the waiting loops
queue_never_empty(len) == FALSE
queue_empty(len) == len < 1

InitWebcam ==
    /\ pc = [input |-> "loop", det |-> "wait", pose |-> "wait", display |-> "get"]
    /\ shared = [frame_buffer |-> 0, input_queue |-> 0, det_result_queue |-> 0,
                 pose_result_queue |-> 0, input_queue_mutex |-> "free",
                 det_result_queue_mutex |-> "free", pose_result_queue_mutex |-> "free",
                 event_exit |-> FALSE, error |-> "none"]
    /\ heatmaps = None /\ args = None /\ ret = None /\ prev = None
    /\ alt = None /\ altRet = None

\* lines 179-189.  put blocks while frame_buffer is full; append on a full
\* deque of maxlen 1 replaces its element.
read_camera ==
    /\ \/ /\ pc.input = "loop"
          /\ pc' = [pc EXCEPT !.input = IF shared.event_exit THEN "done" ELSE "put"]
          /\ UNCHANGED shared
       \/ /\ pc.input = "put"
          /\ shared.frame_buffer < BufferSize
          /\ shared' = [shared EXCEPT !.frame_buffer = @ + 1]
          /\ pc' = [pc EXCEPT !.input = "lock"]
       \/ /\ pc.input = "lock"
          /\ shared.input_queue_mutex = "free"
          /\ shared' = [shared EXCEPT !.input_queue_mutex = "input"]
          /\ pc' = [pc EXCEPT !.input = "append"]
       \/ /\ pc.input = "append"
          /\ shared' = [shared EXCEPT !.input_queue = 1, !.input_queue_mutex = "free"]
          /\ pc' = [pc EXCEPT !.input = "loop"]
    /\ UNCHANGED <<heatmaps, args, ret, prev, alt, altRet>>

\* lines 196-207
inference_detection ==
    /\ \/ /\ pc.det = "wait"
          /\ ~queue_empty(shared.input_queue)
          /\ pc' = [pc EXCEPT !.det = "lock"]
          /\ UNCHANGED shared
       \/ /\ pc.det = "lock"
          /\ shared.input_queue_mutex = "free"
          /\ shared' = [shared EXCEPT !.input_queue_mutex = "det"]
          /\ pc' = [pc EXCEPT !.det = "pop"]
       \/ /\ pc.det = "pop"
          /\ IF shared.input_queue = 0
             THEN /\ shared' = [shared EXCEPT !.error = "IndexError",
                                              !.input_queue_mutex = "free"]
                  /\ pc' = [pc EXCEPT !.det = "dead"]
             ELSE /\ shared' = [shared EXCEPT !.input_queue = @ - 1,
                                              !.input_queue_mutex = "free"]
                  /\ pc' = [pc EXCEPT !.det = "infer"]
       \/ /\ pc.det = "infer"
          /\ shared.det_result_queue_mutex = "free"
          /\ shared' = [shared EXCEPT !.det_result_queue_mutex = "det"]
          /\ pc' = [pc EXCEPT !.det = "append"]
       \/ /\ pc.det = "append"
          /\ shared' = [shared EXCEPT !.det_result_queue = 1,
                                      !.det_result_queue_mutex = "free"]
          /\ pc' = [pc EXCEPT !.det = "wait"]
    /\ UNCHANGED <<heatmaps, args, ret, prev, alt, altRet>>

\* lines 214-263
inference_pose ==
    /\ \/ /\ pc.pose = "wait"
          /\ ~queue_empty(shared.det_result_queue)
          /\ pc' = [pc EXCEPT !.pose = "lock"]
          /\ UNCHANGED shared
       \/ /\ pc.pose = "lock"
          /\ shared.det_result_queue_mutex = "free"
          /\ shared' = [shared EXCEPT !.det_result_queue_mutex = "pose"]
          /\ pc' = [pc EXCEPT !.pose = "pop"]
       \/ /\ pc.pose = "pop"
          /\ IF shared.det_result_queue = 0
             THEN /\ shared' = [shared EXCEPT !.error = "IndexError",
                                              !.det_result_queue_mutex = "free"]
                  /\ pc' = [pc EXCEPT !.pose = "dead"]
             ELSE /\ shared' = [shared EXCEPT !.det_result_queue = @ - 1,
                                              !.det_result_queue_mutex = "free"]
                  /\ pc' = [pc EXCEPT !.pose = "infer"]
       \/ /\ pc.pose = "infer"
          /\ shared.pose_result_queue_mutex = "free"
          /\ shared' = [shared EXCEPT !.pose_result_queue_mutex = "pose"]
          /\ pc' = [pc EXCEPT !.pose = "append"]
       \/ /\ pc.pose = "append"
          /\ shared' = [shared EXCEPT !.pose_result_queue = 1,
                                      !.pose_result_queue_mutex = "free"]
          /\ pc' = [pc EXCEPT !.pose = "wait"]
    /\ UNCHANGED <<heatmaps, args, ret, prev, alt, altRet>>

\* lines 282-400.  get blocks while frame_buffer is empty; waitKey ends the
\* loop or not.
display ==
    /\ \/ /\ pc.display = "get"
          /\ shared.frame_buffer > 0
          /\ shared' = [shared EXCEPT !.frame_buffer = @ - 1]
          /\ pc' = [pc EXCEPT !.display = "check"]
       \/ /\ pc.display = "check"
          /\ pc' = [pc EXCEPT !.display =
                        IF shared.pose_result_queue > 0 THEN "lock" ELSE "key"]
          /\ UNCHANGED shared
       \/ /\ pc.display = "lock"
          /\ shared.pose_result_queue_mutex = "free"
          /\ shared' = [shared EXCEPT !.pose_result_queue_mutex = "display"]
          /\ pc' = [pc EXCEPT !.display = "pop"]
       \/ /\ pc.display = "pop"
          /\ IF shared.pose_result_queue = 0
             THEN /\ shared' = [shared EXCEPT !.error = "IndexError",
                                              !.pose_result_queue_mutex = "free"]
                  /\ pc' = [pc EXCEPT !.display = "dead"]
             ELSE /\ shared' = [shared EXCEPT !.pose_result_queue = @ - 1,
                                              !.pose_result_queue_mutex = "free"]
                  /\ pc' = [pc EXCEPT !.display = "key"]
       \/ /\ pc.display = "key"
          /\ \E quit \in BOOLEAN :
                pc' = [pc EXCEPT !.display = IF quit THEN "exit" ELSE "get"]
          /\ UNCHANGED shared
       \/ /\ pc.display = "exit"
          /\ shared' = [shared EXCEPT !.event_exit = TRUE]
          /\ pc' = [pc EXCEPT !.display = "join"]
    /\ UNCHANGED <<heatmaps, args, ret, prev, alt, altRet>>

\* line 485: t_input.join() returns when read_camera has returned
main ==
    /\ pc.display = "join"
    /\ pc.input = "done"
    /\ pc' = [pc EXCEPT !.display = "end"]
    /\ UNCHANGED <<heatmaps, args, ret, prev, alt, altRet, shared>>

NextWebcam == read_camera \/ inference_detection \/ inference_pose \/ display \/ main

SpecWebcam == InitWebcam /\ [][NextWebcam]_vars

\* every thread that can run does run: the scheduler starves no thread
SpecWebcamFair ==
    /\ SpecWebcam
    /\ WF_vars(read_camera) /\ WF_vars(inference_detection)
    /\ WF_vars(inference_pose) /\ WF_vars(display) /\ WF_vars(main)

----------------------------------------------------------------------------
(***************************************************************************)
(* Claims about _get_max_preds                                             *)
(***************************************************************************)
ChannelCells(hm) == {<<y, x>> : y \in DOMAIN hm, x \in DOMAIN hm[0]}
ChannelMax(hm) ==
    CHOOSE v \in {hm[c[1]][c[2]] : c \in ChannelCells(hm)} :
        \A c \in ChannelCells(hm) : hm[c[1]][c[2]] <= v
\* the smallest row-major index at which the maximum is attained
FirstMaxIndex(hm) ==
    LET W == Dim(hm[0])
        m == ChannelMax(hm)
        at == {c[1] * W + c[2] : c \in {d \in ChannelCells(hm) : hm[d[1]][d[2]] = m}}
    IN  CHOOSE i \in at : \A j \in at : i <= j

\* C1: for every (instance, channel) whose maximum is > 0, _get_max_preds
\* returns (x, y) = (idx mod W, idx div W) for the smallest row-major index
\* idx of the maximum, and maxval equal to that maximum; so 0 <= x <= W-1
\* and 0 <= y <= H-1.
C1_ArgmaxCoordinate ==
    pc = "max_done" =>
        \A n \in DOMAIN heatmaps : \A k \in DOMAIN heatmaps[n] :
            LET hm == heatmaps[n][k]
                H == Dim(hm)
                W == Dim(hm[0])
                idx == FirstMaxIndex(hm)
                p == ret.preds[n][k]
            IN  ChannelMax(hm) > 0 =>
                    /\ p = <<(idx % W) * CoordScale, (idx \div W) * CoordScale>>
                    /\ ret.maxvals[n][k] = ChannelMax(hm)
                    /\ 0 <= p[1] /\ p[1] <= (W - 1) * CoordScale
                    /\ 0 <= p[2] /\ p[2] <= (H - 1) * CoordScale

\* a channel whose positive maximum is attained twice, the first time neither
\* in the first row nor in the first column, has been decoded
C1_Witness ==
    /\ pc = "max_done"
    /\ \E n \in DOMAIN heatmaps : \E k \in DOMAIN heatmaps[n] :
        LET hm == heatmaps[n][k]
        IN  /\ ChannelMax(hm) > 0
            /\ Cardinality({c \in ChannelCells(hm) : hm[c[1]][c[2]] = ChannelMax(hm)}) = 2
            /\ ret.preds[n][k][1] > 0 /\ ret.preds[n][k][2] > 0

\* C2: a channel whose maximum is <= 0 (an all-zero channel in particular)
\* gets the sentinel (-1, -1) while maxval is the channel's real maximum; a
\* channel whose maximum is > 0 never gets the sentinel.
C2_SentinelIffNotPositive ==
    pc = "max_done" =>
        \A n \in DOMAIN heatmaps : \A k \in DOMAIN heatmaps[n] :
            LET hm == heatmaps[n][k]
            IN  /\ ChannelMax(hm) <= 0 =>
                    /\ ret.preds[n][k] = Sentinel
                    /\ ret.maxvals[n][k] = ChannelMax(hm)
                /\ ChannelMax(hm) > 0 => ret.preds[n][k] # Sentinel

\* an all-zero channel and a channel with a negative maximum have been
\* decoded next to a channel with a positive maximum
C2_Witness ==
    /\ pc = "max_done"
    /\ \E n \in DOMAIN heatmaps : \E k \in DOMAIN heatmaps[n] :
        /\ \A c \in ChannelCells(heatmaps[n][k]) : heatmaps[n][k][c[1]][c[2]] = 0
        /\ ret.preds[n][k] = Sentinel /\ ret.maxvals[n][k] = 0
    /\ \E n \in DOMAIN heatmaps : \E k \in DOMAIN heatmaps[n] :
        ChannelMax(heatmaps[n][k]) > 0

----------------------------------------------------------------------------
(***************************************************************************)
(* Claims about the metrics                                                *)
(***************************************************************************)
MetricN == Dim(args.pred)
MetricK == Dim(args.pred[0])
ValidOfChannel(k) == {n \in Idx(MetricN) : args.mask[n][k]}
\* the normalized distance of keypoint (n, k) itself
OwnDistance(n, k, normalize) == norm_dist(args.pred[n][k], args.gt[n][k], normalize[n])

\* C8: keypoint_pck_accuracy returns acc[k] = (valid keypoints (n, k) whose
\* own normalized distance is strictly below thr) / (valid keypoints of
\* channel k), and acc[k] = -1 when channel k has no valid keypoint, for
\* every N and K.
C8_PckPerChannel ==
    (pc = "metric_done" /\ ret.call = "pck") =>
        \A k \in Idx(MetricK) :
            ret.out.acc[k] =
                IF ValidOfChannel(k) = {} THEN <<-1, 1>>
                ELSE Rat(Cardinality({n \in ValidOfChannel(k) :
                                        OwnDistance(n, k, args.normalize) < ret.thr}),
                         Cardinality(ValidOfChannel(k)))

MaskAllFalse == \A n \in Idx(MetricN) : \A k \in Idx(MetricK) : ~args.mask[n][k]

\* C9: with an all-False mask no metric divides by zero: keypoint_pck_accuracy
\* returns acc[k] = -1 for every channel with avg_acc = 0 and cnt = 0, and
\* keypoint_epe returns a well-defined number.
C9_AllInvalidIsDefined ==
    (pc = "metric_done" /\ MaskAllFalse) =>
        /\ ret.call = "pck" =>
            /\ \A k \in Idx(MetricK) : ret.out.acc[k] = <<-1, 1>>
            /\ ret.out.avg_acc = <<0, 1>>
            /\ ret.out.cnt = 0
        /\ ret.call = "epe" => ~IsNaN(ret.out)

\* the sum of the average accuracies at the thresholds i / num_step, i < m
RECURSIVE AvgAccSum(_, _, _)
AvgAccSum(m, num_step, normalize) ==
    IF m = 0 THEN <<0, 1>>
    ELSE RAdd(AvgAccSum(m - 1, num_step, normalize),
              keypoint_pck_accuracy(args.pred, args.gt, args.mask,
                                    ((m - 1) * DistScale) \div num_step,
                                    [n \in Idx(MetricN) |-> <<normalize, normalize>>]).avg_acc)

\* C10: keypoint_auc returns (1 / num_step) times the sum over the thresholds
\* t_i = i / num_step, i = 0 .. num_step - 1, of the average accuracy of
\* keypoint_pck_accuracy at t_i with the scalar normalize on both axes.
C10_AucIsMeanOfPck ==
    (pc = "metric_done" /\ ret.call = "auc") =>
        ret.out = RDivInt(AvgAccSum(ret.num_step, ret.num_step, ret.normalize),
                          ret.num_step)

\* an AUC over several thresholds that is neither 0 nor 1 has been computed
C10_Witness ==
    /\ pc = "metric_done" /\ ret.call = "auc"
    /\ ret.num_step >= 2
    /\ ret.out # <<0, 1>> /\ ret.out # <<1, 1>>
    /\ \E n \in Idx(MetricN) : \E k \in Idx(MetricK) : args.mask[n][k]

\* C11: for every pred, gt and mask (an all-False mask included), positive
\* normalize and num_step >= 1, the value of keypoint_auc lies in [0, 1].
C11_AucInUnitInterval ==
    (pc = "metric_done" /\ ret.call = "auc") =>
        /\ RLe(<<0, 1>>, ret.out)
        /\ RLe(ret.out, <<1, 1>>)

\* the AUC of a batch with an all-False mask has been computed, over more
\* than one threshold
C11_Witness ==
    /\ pc = "metric_done" /\ ret.call = "auc"
    /\ MaskAllFalse
    /\ ret.num_step >= 2
    /\ ret.out = <<0, 1>>

\* C12: for fixed pred, gt, mask and normalize and thresholds thr1 <= thr2,
\* every per-channel accuracy acc[k] and the average avg_acc that
\* keypoint_pck_accuracy returns at thr1 are <= those it returns at thr2.
C12_PckMonotone ==
    pc = "metric_again" =>
        /\ prev.thr <= ret.thr
        /\ \A k \in Idx(MetricK) : RLe(prev.out.acc[k], ret.out.acc[k])
        /\ RLe(prev.out.avg_acc, ret.out.avg_acc)

\* the PCK has been computed at two different thresholds, with a channel
\* whose accuracy and an average that are strictly larger at the second
C12_Witness ==
    /\ pc = "metric_again"
    /\ prev.thr < ret.thr
    /\ \E k \in Idx(MetricK) : /\ prev.out.acc[k] # ret.out.acc[k]
                                /\ RLe(<<0, 1>>, prev.out.acc[k])
    /\ prev.out.avg_acc # ret.out.avg_acc

\* the keypoints whose predicted and target channels both have a positive
\* maximum, among those the mask admits
PresentMask ==
    [n \in DOMAIN heatmaps |-> [k \in DOMAIN heatmaps[n] |->
        /\ args.mask[n][k]
        /\ ChannelMax(heatmaps[n][k]) > 0
        /\ ChannelMax(alt[n][k]) > 0]]

\* C16: in pose_pck_accuracy a keypoint (n, k) whose predicted or target
\* channel has no positive maximum is excluded from the numerator and the
\* denominator of acc[k], even when mask[n][k] is True: the accuracies are
\* those of the mask restricted to the keypoints present on both sides.
C16_AbsentKeypointsExcluded ==
    pc = "pose_done" =>
        ret = pose_pck_accuracy(heatmaps, alt, PresentMask, args.thr, args.normalize)

\* C18: _calc_distances returns d of shape (K, N) with d[k][n] the
\* normalized distance of keypoint (n, k) itself where mask[n][k] is True
\* and -1 where it is False, for every N, K and mask.
C18_DistancesAreOwn ==
    (pc = "metric_done" /\ ret.call = "distances") =>
        /\ DOMAIN ret.out = Idx(MetricK)
        /\ \A k \in Idx(MetricK) :
            /\ DOMAIN ret.out[k] = Idx(MetricN)
            /\ \A n \in Idx(MetricN) :
                ret.out[k][n] = IF args.mask[n][k]
                                THEN OwnDistance(n, k, args.normalize)
                                ELSE -1

----------------------------------------------------------------------------
(***************************************************************************)
(* Claims about keypoints_from_heatmaps as a function of its arguments     *)
(***************************************************************************)
\* what the first call on heatmaps returned
FirstRet == IF pc = "called" THEN ret ELSE prev

\* C3: the keypoints and scores that keypoints_from_heatmaps returns for
\* instance i depend only on heatmaps[i], center[i] and scale[i]: the batch
\* alt, in which the heatmaps of one other instance are replaced, decodes to
\* the same preds[i] and maxvals[i], in every mode.
C3_InstanceIndependence ==
    (pc \in {"called", "retried"} /\ altRet.err = "none") =>
        \A i \in DOMAIN heatmaps :
            i # args.replaced =>
                /\ FirstRet.preds[i] = altRet.preds[i]
                /\ FirstRet.maxvals[i] = altRet.maxvals[i]

\* C4: a call of keypoints_from_heatmaps leaves every element of the array
\* it is given, and center and scale, as they were before the call, in every
\* configuration.
C4_DecodeIsPure ==
    [][(pc \in {"ready", "called"}) => (heatmaps' = heatmaps /\ alt' = alt /\ args' = args)]_vars

\* C5: a second call of keypoints_from_heatmaps on the same argument objects
\* with the same options returns the same (preds, maxvals) as the first.
C5_RetryReturnsTheSame ==
    pc = "retried" => ret = prev

\* C15: keypoints_from_heatmaps called with a target_type other than
\* 'GaussianHeatMap' and 'CombinedTarget' raises an error and returns no
\* predictions, with use_udp True or False and every post_process and
\* unbiased.
C15_UnsupportedTargetTypeFails ==
    (pc \in {"called", "retried"}
        /\ args.o.target_type \notin {"GaussianHeatMap", "CombinedTarget"}) =>
            ret.err # "none"

----------------------------------------------------------------------------
(***************************************************************************)
(* Claims about _gaussian_blur                                             *)
(***************************************************************************)
\* C13: after _gaussian_blur the maximum of every (instance, channel) equals
\* the maximum that channel had before the call, for every heatmap (a flat
\* all-zero channel included) and every odd kernel size.
C13_BlurPreservesPeak ==
    (pc = "blur_done" /\ ret.err = "none") =>
        \A i \in DOMAIN heatmaps : \A j \in DOMAIN heatmaps[i] :
            /\ \A c \in ChannelCells(heatmaps[i][j]) : ~IsNaN(heatmaps[i][j][c[1]][c[2]])
            /\ ChannelMax(heatmaps[i][j]) = ChannelMax(prev[i][j])

\* C14: _gaussian_blur accepts exactly the odd kernel sizes >= 1: with an
\* even kernel it raises an assertion error before any element is modified,
\* and with an odd kernel (1 included) it completes and returns a heatmap of
\* the shape (N, K, H, W) it was given.
C14_BlurAcceptsOddKernels ==
    pc = "blur_done" =>
        IF args.kernel % 2 = 0
        THEN ret.err = "AssertionError" /\ heatmaps = prev
        ELSE /\ ret.err = "none"
             /\ DOMAIN ret.out = DOMAIN prev
             /\ \A i \in DOMAIN prev :
                /\ DOMAIN ret.out[i] = DOMAIN prev[i]
                /\ \A j \in DOMAIN prev[i] :
                    /\ DOMAIN ret.out[i][j] = DOMAIN prev[i][j]
                    /\ \A y \in DOMAIN prev[i][j] :
                        DOMAIN ret.out[i][j][y] = DOMAIN prev[i][j][y]

----------------------------------------------------------------------------
(***************************************************************************)
(* Claims about round trips                                                *)
(***************************************************************************)
Tolerance == 5 * CoordScale

\* C6: a one-hot at any cell (x0, y0) followed by a Gaussian blur, decoded by
\* keypoints_from_heatmaps under an identity coordinate transform, yields a
\* coordinate within 5 px of (x0, y0) on each axis, in shift, Taylor and
\* DARK mode.
C6_RoundTripWithinTolerance ==
    pc = "rt_done" =>
        /\ ret.err = "none"
        /\ Abs(ret.preds[0][0][1] - args.keypoint[1] * CoordScale) <= Tolerance
        /\ Abs(ret.preds[0][0][2] - args.keypoint[2] * CoordScale) <= Tolerance

\* a keypoint away from the borders has been decoded by DARK to a coordinate
\* that the refinement moved off the cell, closer than one cell to it
C6_Witness ==
    /\ pc = "rt_done"
    /\ args.o.use_udp
    /\ args.keypoint[1] >= 2 /\ args.keypoint[2] >= 2
    /\ ret.preds[0][0][1] # args.keypoint[1] * CoordScale
    /\ Abs(ret.preds[0][0][1] - args.keypoint[1] * CoordScale) < CoordScale
    /\ Abs(ret.preds[0][0][2] - args.keypoint[2] * CoordScale) < CoordScale

\* C7: for a single instance whose keypoints are all visible and inside the
\* input image, MegviiHeatmap.decode(encode(keypoints, visible)[0]) returns
\* keypoints within 5 px of the original keypoints on every coordinate, for
\* every input_size and heatmap_size.
C7_MegviiRoundTrip ==
    (pc = "megvii_decoded" /\ \A k \in DOMAIN args.keypoints[0] : args.keypoints_visible[0][k]) =>
        \A k \in DOMAIN args.keypoints[0] :
            /\ Abs(ret.keypoints[0][k][1] - args.keypoints[0][k][1]) <= Tolerance
            /\ Abs(ret.keypoints[0][k][2] - args.keypoints[0][k][2]) <= Tolerance

\* C17: MegviiHeatmap.decode on heatmaps of shape (K, H, W) returns keypoints
\* of shape (1, K, 2) and scores of shape (1, K), where scores[0][k] is the
\* peak value of the blurred heatmap k divided by 255, plus 0.5.
C17_MegviiScores ==
    pc = "megvii_decoded" =>
        /\ DOMAIN ret.keypoints = Idx(1)
        /\ DOMAIN ret.keypoints[0] = DOMAIN heatmaps
        /\ \A k \in DOMAIN heatmaps : DOMAIN ret.keypoints[0][k] = {1, 2}
        /\ DOMAIN ret.scores = Idx(1)
        /\ DOMAIN ret.scores[0] = DOMAIN heatmaps
        /\ \A k \in DOMAIN heatmaps :
            ret.scores[0][k] =
                megvii_score(ChannelMax(gaussian_blur(heatmaps, args.kernel_size[1])[k]))

----------------------------------------------------------------------------
(***************************************************************************)
(* Claims about the shift mode                                             *)
(***************************************************************************)
\* the integer peak of the decoded channel, and the channel
ShiftMap == heatmaps[0][0]
PeakX == FirstMaxIndex(ShiftMap) % Dim(ShiftMap[0])
PeakY == FirstMaxIndex(ShiftMap) \div Dim(ShiftMap[0])
Quarter == CoordScale \div 4
\* 0.25 * sign(a - b), 0 on a tie
QuarterToward(a, b) == IF a > b THEN Quarter ELSE IF a < b THEN -Quarter ELSE 0
\* the peak moved by a quarter along the gradient on each axis
ShiftedPeak ==
    <<PeakX * CoordScale + QuarterToward(ShiftMap[PeakY][PeakX + 1], ShiftMap[PeakY][PeakX - 1]),
      PeakY * CoordScale + QuarterToward(ShiftMap[PeakY + 1][PeakX], ShiftMap[PeakY - 1][PeakX])>>

\* C19: in shift mode, whenever the shift is applied to a keypoint with
\* integer peak (px, py), the offset added to its coordinate is
\* 0.25 * sign(h[py][px+1] - h[py][px-1]) in x and
\* 0.25 * sign(h[py+1][px] - h[py-1][px]) in y, 0 on a tie; the refined
\* coordinate never differs from the peak by more than 0.25 on either axis.
C19_ShiftIsQuarterOfSign ==
    pc = "shift_done" =>
        /\ ret.err = "none"
        /\ (1 < PeakX /\ PeakX < Dim(ShiftMap[0]) - 1 /\ 1 < PeakY /\ PeakY < Dim(ShiftMap) - 1)
                => ret.preds[0][0] = ShiftedPeak
        /\ Abs(ret.preds[0][0][1] - PeakX * CoordScale) <= Quarter
        /\ Abs(ret.preds[0][0][2] - PeakY * CoordScale) <= Quarter

\* a peak has been moved by +0.25 on one axis and left where it was, on a
\* tie, on the other
C19_Witness ==
    /\ pc = "shift_done"
    /\ ret.preds[0][0][1] = PeakX * CoordScale + Quarter
    /\ ret.preds[0][0][2] = PeakY * CoordScale
    /\ ShiftMap[PeakY + 1][PeakX] = ShiftMap[PeakY - 1][PeakX]
    /\ ShiftMap[PeakY + 1][PeakX] > 0

\* C20: in shift mode the shift is applied to a keypoint exactly when its
\* integer peak (px, py) is more than 1 px away from each of the four
\* borders, the left and top borders (index 0) and the right and bottom
\* borders (index W-1, H-1) alike.
C20_ShiftBorderRule ==
    pc = "shift_done" =>
        ret.preds[0][0] =
            IF /\ PeakX - 0 > 1 /\ (Dim(ShiftMap[0]) - 1) - PeakX > 1
               /\ PeakY - 0 > 1 /\ (Dim(ShiftMap) - 1) - PeakY > 1
            THEN ShiftedPeak
            ELSE <<PeakX * CoordScale, PeakY * CoordScale>>

(***************************************************************************)
(* Claims on _taylor, checked on SpecTaylor                                *)
(***************************************************************************)
TaylorPx == args.coord[1] \div CoordScale
TaylorPy == args.coord[2] \div CoordScale
TaylorInside ==
    /\ 2 <= TaylorPx /\ TaylorPx <= Dim(heatmaps[0]) - 3
    /\ 2 <= TaylorPy /\ TaylorPy <= Dim(heatmaps) - 3
TaylorTap(dy, dx) == heatmaps[TaylorPy + dy][TaylorPx + dx]

\* C21: _taylor changes a coordinate only if 2 <= px <= W-3 and
\* 2 <= py <= H-3; for every other coordinate, the (-1, -1) of an empty
\* channel included, it returns the coordinate it was given.
C21_TaylorChangesOnlyInside ==
    (pc = "taylor_done" /\ ~TaylorInside) => ret = args.coord

\* a peak one cell from the left border, on a slope, is returned as it was
C21_Witness ==
    /\ pc = "taylor_done"
    /\ TaylorPx = 1 /\ TaylorPy = 2
    /\ heatmaps[2][2] # heatmaps[2][0]
    /\ ret = args.coord

\* C22: for a peak at least two cells from every border, if the
\* determinant dxx*dyy - dxy^2 of the finite-difference hessian of the
\* channel is not 0, the coordinate returned is coord - offset where
\* hessian * offset = derivative (to the rounding of a coordinate); if the
\* determinant is 0 the coordinate is returned unchanged.
C22_TaylorNewtonStep ==
    (pc = "taylor_done" /\ TaylorInside) =>
        LET dx == (TaylorTap(0, 1) - TaylorTap(0, -1)) \div 2
            dy == (TaylorTap(1, 0) - TaylorTap(-1, 0)) \div 2
            dxx == (TaylorTap(0, 2) - 2 * TaylorTap(0, 0) + TaylorTap(0, -2)) \div 4
            dxy == (TaylorTap(1, 1) - TaylorTap(-1, 1) - TaylorTap(1, -1)
                    + TaylorTap(-1, -1)) \div 4
            dyy == (TaylorTap(2, 0) - 2 * TaylorTap(0, 0) + TaylorTap(-2, 0)) \div 4
            ox == args.coord[1] - ret[1]
            oy == args.coord[2] - ret[2]
        IN  IF dxx * dyy - dxy * dxy = 0 THEN ret = args.coord
            ELSE /\ Abs(dxx * ox + dxy * oy - dx * CoordScale)
                        <= (Abs(dxx) + Abs(dxy)) \div 2 + 1
                 /\ Abs(dxy * ox + dyy * oy - dy * CoordScale)
                        <= (Abs(dxy) + Abs(dyy)) \div 2 + 1

\* a peak inside, a hessian that can be inverted, and a coordinate moved
C22_Witness ==
    /\ pc = "taylor_done" /\ TaylorInside
    /\ ret # args.coord

\* a peak inside on a flat neighbourhood: the determinant is 0
C22_FlatWitness ==
    /\ pc = "taylor_done" /\ TaylorInside
    /\ \A c \in taylor_reads(TaylorPx, TaylorPy) : heatmaps[c[1]][c[2]] = TaylorTap(0, 0)
    /\ ret = args.coord

(***************************************************************************)
(* Claims on post_dark, checked on SpecDecode                              *)
(***************************************************************************)
DarkMode(o) == o.use_udp /\ o.target_type = "GaussianHeatMap" /\ o.post_process

CombinedMode(o) == o.use_udp /\ o.target_type = "CombinedTarget"
TaylorMode(o) == ~o.use_udp /\ o.post_process /\ o.unbiased
\* the heatmap of keypoint k of instance i, before the call
HeatOf(i, k) == IF CombinedMode(args.o) THEN alt[i][3 * k] ELSE alt[i][k]
\* <<x, y>> of the first maximum of a channel, or (-1, -1) if it is <= 0
PeakOf(hm) ==
    IF ChannelMax(hm) > 0
    THEN <<(FirstMaxIndex(hm) % Dim(hm[0])) * CoordScale,
           (FirstMaxIndex(hm) \div Dim(hm[0])) * CoordScale>>
    ELSE Sentinel
\* the heatmap of keypoint k of instance i after the Gaussian blur of the mode
BlurredOf(i, k) ==
    IF CombinedMode(args.o)
    THEN GaussianBlur(HeatOf(i, k), 2 * args.o.kernel + 1, 2 * args.o.kernel + 1)
    ELSE IF DarkMode(args.o) THEN GaussianBlur(HeatOf(i, k), 3, 3)
    ELSE _gaussian_blur([n \in Idx(1) |-> [j \in Idx(1) |-> HeatOf(i, k)]],
                        args.o.kernel)[0][0]

\* C24: for every peak inside the heatmap, first and last rows and columns
\* included, every element the refinement reads lies inside the array:
\* inside the H x W channel in shift and Taylor mode, and in DARK mode
\* inside the (H+2) x (W+2) padded channel, within the 3 x 3 neighbourhood
\* of the peak.
C24_RefinementReadsInside ==
    pc = "refine_done" =>
        \A i \in DOMAIN alt : \A k \in DOMAIN alt[i] :
            ChannelMax(alt[i][k]) > 0 =>
                \A c \in altRet[i][k] :
                    IF DarkMode(args.o)
                    THEN /\ 0 <= c[1] /\ c[1] <= Dim(alt[i][k]) + 1
                         /\ 0 <= c[2] /\ c[2] <= Dim(alt[i][k][0]) + 1
                         /\ Abs(c[1] * CoordScale - (PeakOf(alt[i][k])[2] + CoordScale))
                                <= CoordScale
                         /\ Abs(c[2] * CoordScale - (PeakOf(alt[i][k])[1] + CoordScale))
                                <= CoordScale
                    ELSE /\ 0 <= c[1] /\ c[1] <= Dim(alt[i][k]) - 1
                         /\ 0 <= c[2] /\ c[2] <= Dim(alt[i][k][0]) - 1

\* DARK has read the neighbourhood of a peak on the last row and column
C24_Witness ==
    /\ pc = "refine_done" /\ DarkMode(args.o)
    /\ PeakOf(alt[0][0]) = <<(GridW - 1) * CoordScale, (GridH - 1) * CoordScale>>
    /\ <<GridH + 1, GridW + 1>> \in altRet[0][0]

\* C25: in every call that blurs the heatmaps (Taylor mode, DARK,
\* CombinedTarget), the confidence returned for a keypoint is the maximum of
\* its blurred heatmap and the coordinate returned is refined from the
\* integer peak of the blurred heatmap, so lies within a pixel of it.
C25_BlurBeforeMaximum ==
    (pc = "refine_done" /\ (TaylorMode(args.o) \/ DarkMode(args.o) \/ CombinedMode(args.o))) =>
        \A i \in DOMAIN ret.preds : \A k \in DOMAIN ret.preds[i] :
            ChannelMax(HeatOf(i, k)) > 0 =>
                /\ ret.maxvals[i][k] = ChannelMax(BlurredOf(i, k))
                /\ Abs(ret.preds[i][k][1] - PeakOf(BlurredOf(i, k))[1]) <= CoordScale
                /\ Abs(ret.preds[i][k][2] - PeakOf(BlurredOf(i, k))[2]) <= CoordScale

\* C26: with post_process False the coordinates handed to transform_preds
\* are the integer peaks the maximum finder returned, for every
\* combination of use_udp, unbiased and target_type.
C26_NoPostProcessNoCorrection ==
    (pc = "refine_done" /\ ~args.o.post_process) =>
        /\ ret.err = "none"
        /\ \A i \in DOMAIN ret.preds : \A k \in DOMAIN ret.preds[i] :
              ret.preds[i][k] =
                  PeakOf(IF CombinedMode(args.o) THEN BlurredOf(i, k) ELSE HeatOf(i, k))

\* C27: for every channel whose maximum is <= 0 the coordinate after
\* refinement is still (-1, -1), in every mode and for every instance.
C27_SentinelSurvives ==
    (pc = "refine_done" /\ ret.err = "none") =>
        \A i \in DOMAIN ret.preds : \A k \in DOMAIN ret.preds[i] :
            ChannelMax(HeatOf(i, k)) <= 0 => ret.preds[i][k] = Sentinel

\* C28: with normalize=None, pose_pck_accuracy divides the x-difference of
\* a keypoint by W/10 and its y-difference by H/10, also when H # W: its
\* result is that of keypoint_pck_accuracy on the peaks with the factor
\* (W/10, H/10) for every instance.
C28_DefaultNormalizeByWidthHeight ==
    (pc = "pose_done" /\ args.normalize = NoNormalize /\ Dim(heatmaps[0]) > 0) =>
        ret = keypoint_pck_accuracy(
                in_cells([n \in DOMAIN heatmaps |-> [k \in DOMAIN heatmaps[n] |->
                            PeakOf(heatmaps[n][k])]]),
                in_cells([n \in DOMAIN alt |-> [k \in DOMAIN alt[n] |-> PeakOf(alt[n][k])]]),
                args.mask, args.thr \div 10,
                [n \in DOMAIN heatmaps |->
                    <<Dim(heatmaps[0][0][0]), Dim(heatmaps[0][0])>>])

(***************************************************************************)
(* Claims on the threads of webcam_demo_async.py                           *)
(***************************************************************************)
\* C29: under every interleaving of the input, detection, pose and display
\* threads, popleft() is never executed on an empty deque: no thread raises
\* IndexError, and a thread that is about to execute popleft finds an
\* element in its deque.
C29_PopleftNeverOnEmpty ==
    /\ shared.error = "none"
    /\ pc.det = "pop" => shared.input_queue >= 1
    /\ pc.pose = "pop" => shared.det_result_queue >= 1
    /\ pc.display = "pop" => shared.pose_result_queue >= 1

\* the three consumers are about to execute popleft at the same time, while
\* the input thread waits for the mutex the detection thread holds
C29_Witness ==
    /\ pc.det = "pop" /\ pc.pose = "pop" /\ pc.display = "pop"
    /\ pc.input = "lock"

\* C30: after display has left its loop and set event_exit, the read_camera
\* thread eventually terminates and main's t_input.join() returns, whatever
\* the state of frame_buffer, full included.
C30_JoinReturnsAfterExit ==
    (shared.event_exit) ~> (pc.input = "done" /\ pc.display = "end")

====
